---- MODULE Spec2Model ----
(***************************************************************************)
(* Column-wise quantum circuit simulation: the state-vector engine         *)
(* (single-qubit gates, CNOT, measurement with collapse) and the driver    *)
(* simulateCircuitByColumn, over a heap of GlobalStateVector objects,      *)
(* amplitude arrays and amplitude objects.                                 *)
(*                                                                         *)
(* Numbers.  A JavaScript number is modelled by an element of the field    *)
(* Q(sqrt 2), written (a + b*sqrt2)/d, together with the non-finite values *)
(* NaN and +/-Infinity.  Arithmetic is exact: IEEE-754 rounding is not     *)
(* modelled, so 1/Math.sqrt(2) is the exact number sqrt2/2.                *)
(***************************************************************************)
EXTENDS Integers, Sequences, FiniteSets, TLC

\* ------------------------------------------------------------------ bounds
MaxQubits == 2
MaxCols == 2
MaxGates == 2
DrawDen == 2
MaxSuperposed == 1

\* ------------------------------------------------------- number arithmetic
Abs(n) == IF n < 0 THEN -n ELSE n

RECURSIVE GCD(_, _)
GCD(m, n) == IF n = 0 THEN m ELSE GCD(n, m % n)

\* 1 << n for 0 <= n < 31
RECURSIVE Pow2(_)
Pow2(n) == IF n <= 0 THEN 1 ELSE 2 * Pow2(n - 1)

\* (a + b*sqrt2)/d with the common factor g removed and d made positive
Reduce(a, b, d, g) ==
    IF d < 0 THEN [a |-> (-a) \div g, b |-> (-b) \div g, d |-> (-d) \div g]
    ELSE [a |-> a \div g, b |-> b \div g, d |-> d \div g]

\* the canonical representative of (a + b*sqrt2)/d, d # 0
Mk(a, b, d) ==
    IF d = 1 THEN [a |-> a, b |-> b, d |-> 1]
    ELSE IF a = 0 /\ b = 0 THEN [a |-> 0, b |-> 0, d |-> 1]
    ELSE Reduce(a, b, d, GCD(GCD(Abs(a), Abs(b)), Abs(d)))

NaN == [a |-> 0, b |-> 0, d |-> 0]
PosInf == [a |-> 1, b |-> 0, d |-> 0]
NegInf == [a |-> -1, b |-> 0, d |-> 0]
Zero == [a |-> 0, b |-> 0, d |-> 1]
One == [a |-> 1, b |-> 0, d |-> 1]
MinusOne == [a |-> -1, b |-> 0, d |-> 1]
\* 1 / Math.sqrt(2)
InvSqrt2 == [a |-> 0, b |-> 1, d |-> 2]

IsFinite(x) == x.d # 0

\* the sign of a + b*sqrt2 (also of an infinity; 0 for NaN)
Sign(x) ==
    IF x.a >= 0 /\ x.b >= 0 THEN (IF x.a = 0 /\ x.b = 0 THEN 0 ELSE 1)
    ELSE IF x.a <= 0 /\ x.b <= 0 THEN -1
    ELSE IF x.a > 0 THEN (IF x.a * x.a > 2 * x.b * x.b THEN 1 ELSE -1)
    ELSE (IF 2 * x.b * x.b > x.a * x.a THEN 1 ELSE -1)

NNeg(x) == [a |-> -x.a, b |-> -x.b, d |-> x.d]

\* x + y
NAdd(x, y) ==
    IF x = NaN \/ y = NaN THEN NaN
    ELSE IF ~IsFinite(x) /\ ~IsFinite(y) THEN (IF x = y THEN x ELSE NaN)
    ELSE IF ~IsFinite(x) THEN x
    ELSE IF ~IsFinite(y) THEN y
    ELSE IF x = Zero THEN y
    ELSE IF y = Zero THEN x
    ELSE Mk(x.a * y.d + y.a * x.d, x.b * y.d + y.b * x.d, x.d * y.d)

\* x - y
NSub(x, y) == NAdd(x, NNeg(y))

\* x * y
NMul(x, y) ==
    IF x = NaN \/ y = NaN THEN NaN
    ELSE IF ~IsFinite(x) \/ ~IsFinite(y) THEN
        (IF Sign(x) * Sign(y) = 0 THEN NaN
         ELSE IF Sign(x) * Sign(y) > 0 THEN PosInf ELSE NegInf)
    ELSE IF x = Zero \/ y = Zero THEN Zero
    ELSE IF x = One THEN y
    ELSE IF y = One THEN x
    ELSE Mk(x.a * y.a + 2 * x.b * y.b, x.a * y.b + x.b * y.a, x.d * y.d)

\* x / y
NDiv(x, y) ==
    IF x = NaN \/ y = NaN THEN NaN
    ELSE IF ~IsFinite(y) THEN (IF IsFinite(x) THEN Zero ELSE NaN)
    ELSE IF ~IsFinite(x) THEN (IF Sign(y) < 0 THEN NNeg(x) ELSE x)
    ELSE IF y = Zero THEN
        (IF x = Zero THEN NaN ELSE IF Sign(x) > 0 THEN PosInf ELSE NegInf)
    ELSE NMul(x, Mk(y.d * y.a, -(y.d * y.b), y.a * y.a - 2 * y.b * y.b))

\* x < y (false when either is NaN)
NLess(x, y) ==
    /\ x # NaN
    /\ y # NaN
    /\ x # y
    /\ IF ~IsFinite(x) THEN x = NegInf
       ELSE IF ~IsFinite(y) THEN y = PosInf
       ELSE Sign(NSub(x, y)) < 0

\* Math.sqrt(x): the non-negative root.  It is exact for the squares m/e and
\* m*sqrt2/e; the model only reaches such arguments.
NSqrt(x) ==
    IF x = NaN \/ x = NegInf \/ (IsFinite(x) /\ Sign(x) < 0) THEN NaN
    ELSE IF x = PosInf THEN PosInf
    ELSE CHOOSE y \in { Mk(m, 0, e) : m \in 0..Abs(x.a), e \in 1..(2 * x.d) }
                      \cup { Mk(0, m, e) : m \in 0..Abs(x.a), e \in 1..(2 * x.d) } :
            NMul(y, y) = x

\* ------------------------------------------------------ complex arithmetic
\* Helper to build a ComplexAmplitude
c(real, imaginary) == [real |-> real, imaginary |-> imaginary]

complexAdd(x, y) ==
    [real |-> NAdd(x.real, y.real), imaginary |-> NAdd(x.imaginary, y.imaginary)]

complexMultiply(x, y) ==
    [real |-> NSub(NMul(x.real, y.real), NMul(x.imaginary, y.imaginary)),
     imaginary |-> NAdd(NMul(x.real, y.imaginary), NMul(x.imaginary, y.real))]

\* ------------------------------------------------------ gate matrix catalog
\* mutant: the Hadamard entries 1/2 instead of 1/sqrt(2)
HadamardGateHalf ==
    [rows |-> 2, cols |-> 2,
     data |-> << <<c(Mk(1, 0, 2), Zero), c(Mk(1, 0, 2), Zero)>>,
                 <<c(Mk(1, 0, 2), Zero), c(Mk(-1, 0, 2), Zero)>> >>]

HadamardGate ==
    [rows |-> 2, cols |-> 2,
     data |-> << <<c(InvSqrt2, Zero), c(InvSqrt2, Zero)>>,
                 <<c(InvSqrt2, Zero), c(NNeg(InvSqrt2), Zero)>> >>]

XGate ==
    [rows |-> 2, cols |-> 2,
     data |-> << <<c(Zero, Zero), c(One, Zero)>>,
                 <<c(One, Zero), c(Zero, Zero)>> >>]

\* mutant: both off-diagonal entries +i
YGateSameSign ==
    [rows |-> 2, cols |-> 2,
     data |-> << <<c(Zero, Zero), c(Zero, One)>>,
                 <<c(Zero, One), c(Zero, Zero)>> >>]

YGate ==
    [rows |-> 2, cols |-> 2,
     data |-> << <<c(Zero, Zero), c(Zero, MinusOne)>>,
                 <<c(Zero, One), c(Zero, Zero)>> >>]

ZGate ==
    [rows |-> 2, cols |-> 2,
     data |-> << <<c(One, Zero), c(Zero, Zero)>>,
                 <<c(Zero, Zero), c(MinusOne, Zero)>> >>]

\* GateKind -> 2x2 matrix; <<>> stands for null (MEASURE and CNOT)
getMatrixForGateKind(kind) ==
    IF kind = "H" THEN <<HadamardGate>>
    ELSE IF kind = "X" THEN <<XGate>>
    ELSE IF kind = "Y" THEN <<YGate>>
    ELSE IF kind = "Z" THEN <<ZGate>>
    ELSE <<>>

\* -------------------------------------------------------------------- heap
\* A heap holds the GlobalStateVector objects (vectors), the amplitude arrays
\* and the ComplexAmplitude objects; an address is an index into its sequence.
\* Element i of a JavaScript array is element i + 1 of the sequence.
EmptyHeap == [vectors |-> <<>>, arrays |-> <<>>, objects |-> <<>>]

\* the value of amplitudes[index] of array arr
ArrayGet(h, arr, index) == h.objects[h.arrays[arr][index + 1]]

\* amplitudes[index] = { real: ..., imaginary: ... }: a fresh object
ArraySet(h, arr, index, v) ==
    [h EXCEPT !.objects = Append(@, v),
              !.arrays[arr][index + 1] = Len(h.objects) + 1]

\* what reading an element that was never set yields (address 0)
Undefined == [real |-> NaN, imaginary |-> NaN]

\* the amplitude values of a GlobalStateVector, index 0 first
AmplitudeValues(h, gs) ==
    [i \in 1..Len(h.arrays[h.vectors[gs].amplitudes]) |->
        IF h.arrays[h.vectors[gs].amplitudes][i] = 0 THEN Undefined
        ELSE h.objects[h.arrays[h.vectors[gs].amplitudes][i]]]

\* (index & bitMask) !== 0, bitMask a power of two
BitIsSet(index, bitMask) == (index \div bitMask) % 2 = 1

\* real*real + imaginary*imaginary
MagnitudeSquared(amplitude) ==
    NAdd(NMul(amplitude.real, amplitude.real),
         NMul(amplitude.imaginary, amplitude.imaginary))

\* ------------------------------------------------------------ measureQubit
\* 1) P(0) and P(1), before normalisation
RECURSIVE MeasureProbabilities(_, _, _, _, _, _, _)
MeasureProbabilities(h, arr, index, dimension, bitMask, probabilityZero, probabilityOne) ==
    IF index >= dimension THEN <<probabilityZero, probabilityOne>>
    ELSE LET probability == MagnitudeSquared(ArrayGet(h, arr, index))
         IN  IF ~BitIsSet(index, bitMask)
             THEN MeasureProbabilities(h, arr, index + 1, dimension, bitMask,
                                       NAdd(probabilityZero, probability), probabilityOne)
             ELSE MeasureProbabilities(h, arr, index + 1, dimension, bitMask,
                                       probabilityZero, NAdd(probabilityOne, probability))

\* 3) collapse: zero the amplitudes inconsistent with resultBit, track norm^2
RECURSIVE MeasureCollapse(_, _, _, _, _, _, _)
MeasureCollapse(h, arr, index, dimension, bitMask, resultBit, normSquared) ==
    IF index >= dimension THEN [heap |-> h, normSquared |-> normSquared]
    ELSE LET bitValue == IF BitIsSet(index, bitMask) THEN 1 ELSE 0
         IN  IF bitValue # resultBit
             THEN MeasureCollapse(ArraySet(h, arr, index, c(Zero, Zero)), arr, index + 1,
                                  dimension, bitMask, resultBit, normSquared)
             ELSE MeasureCollapse(h, arr, index + 1, dimension, bitMask, resultBit,
                                  NAdd(normSquared, MagnitudeSquared(ArrayGet(h, arr, index))))

\* 4) renormalise the remaining amplitudes
RECURSIVE MeasureRenormalize(_, _, _, _, _)
MeasureRenormalize(h, arr, index, dimension, inverseNorm) ==
    IF index >= dimension THEN h
    ELSE LET amplitude == ArrayGet(h, arr, index)
         IN  MeasureRenormalize(
                 ArraySet(h, arr, index,
                          c(NMul(amplitude.real, inverseNorm),
                            NMul(amplitude.imaginary, inverseNorm))),
                 arr, index + 1, dimension, inverseNorm)

NoResult == [resultBit |-> -1, probabilityZero |-> NaN, probabilityOne |-> NaN]

\* mutant: r <= probabilityZero ? 0 : 1
MeasureResultBitInclusive(r, probabilityZero) ==
    IF NLess(r, probabilityZero) \/ r = probabilityZero THEN 0 ELSE 1

\* mutant: r < 0.5 ? 0 : 1
MeasureResultBitFairCoin(r, probabilityZero) == IF NLess(r, Mk(1, 0, 2)) THEN 0 ELSE 1

\* r < probabilityZero ? 0 : 1
MeasureResultBit(r, probabilityZero) == IF NLess(r, probabilityZero) THEN 0 ELSE 1

\* totalProbability === 0 ? 1 : totalProbability
MeasureSafeTotal(totalProbability) ==
    IF totalProbability = Zero THEN One ELSE totalProbability

\* mutant: the square root forgotten
MeasureNormNoSqrt(normSquared) == IF normSquared = Zero THEN One ELSE normSquared

\* normSquared === 0 ? 1 : Math.sqrt(normSquared)
MeasureNorm(normSquared) == IF normSquared = Zero THEN One ELSE NSqrt(normSquared)

\* mutant: only an array that is too short is refused
MeasureDimensionTooShort(length, dimension) == length < dimension

\* amplitudes.length !== dimension
MeasureDimensionMismatch(length, dimension) == length # dimension

\* measureQubit(globalState, qubitIndex) with r the value of Math.random();
\* drew tells whether Math.random() was called
measureQubit(h, globalState, qubitIndex, r) ==
    LET numberOfQubits == h.vectors[globalState].numberOfQubits
        amplitudes == h.vectors[globalState].amplitudes
        dimension == Pow2(numberOfQubits)
    IN  IF qubitIndex < 0 \/ qubitIndex >= numberOfQubits
        THEN [heap |-> h, threw |-> TRUE, drew |-> FALSE, result |-> NoResult]
        ELSE IF MeasureDimensionMismatch(Len(h.arrays[amplitudes]), dimension)
        THEN [heap |-> h, threw |-> TRUE, drew |-> FALSE, result |-> NoResult]
        ELSE
        LET bitMask == Pow2(qubitIndex)
            sums == MeasureProbabilities(h, amplitudes, 0, dimension, bitMask, Zero, Zero)
            totalProbability == NAdd(sums[1], sums[2])
            safeTotal == MeasureSafeTotal(totalProbability)
            probabilityZero == NDiv(sums[1], safeTotal)
            probabilityOne == NDiv(sums[2], safeTotal)
            resultBit == MeasureResultBit(r, probabilityZero)
            collapsed == MeasureCollapse(h, amplitudes, 0, dimension, bitMask, resultBit, Zero)
            norm == MeasureNorm(collapsed.normSquared)
            inverseNorm == NDiv(One, norm)
        IN  [heap |-> MeasureRenormalize(collapsed.heap, amplitudes, 0, dimension, inverseNorm),
             threw |-> FALSE,
             drew |-> TRUE,
             result |-> [resultBit |-> resultBit,
                         probabilityZero |-> probabilityZero,
                         probabilityOne |-> probabilityOne]]

\* ----------------------------------------- applySingleQubitGateToGlobalState
\* mutant: new1 computed from the element already overwritten with new0
RECURSIVE SingleQubitGateLoopStale(_, _, _, _, _, _)
SingleQubitGateLoopStale(h, arr, index, dimension, bitMask, matrix) ==
    IF index >= dimension THEN h
    ELSE IF BitIsSet(index, bitMask)
    THEN SingleQubitGateLoopStale(h, arr, index + 1, dimension, bitMask, matrix)
    ELSE LET pairIndex == index + bitMask
             a0 == ArrayGet(h, arr, index)
             a1 == ArrayGet(h, arr, pairIndex)
             new0 == complexAdd(complexMultiply(matrix.data[1][1], a0),
                                complexMultiply(matrix.data[1][2], a1))
             new1 == complexAdd(complexMultiply(matrix.data[2][1], new0),
                                complexMultiply(matrix.data[2][2], a1))
         IN  SingleQubitGateLoopStale(
                 ArraySet(ArraySet(h, arr, index, c(new0.real, new0.imaginary)),
                          arr, pairIndex, c(new1.real, new1.imaginary)),
                 arr, index + 1, dimension, bitMask, matrix)

\* mutant: no index skipped, an index whose bit is 1 paired with itself
RECURSIVE SingleQubitGateLoopNoSkip(_, _, _, _, _, _)
SingleQubitGateLoopNoSkip(h, arr, index, dimension, bitMask, matrix) ==
    IF index >= dimension THEN h
    ELSE LET pairIndex == IF BitIsSet(index, bitMask) THEN index ELSE index + bitMask
             a0 == ArrayGet(h, arr, index)
             a1 == ArrayGet(h, arr, pairIndex)
             new0 == complexAdd(complexMultiply(matrix.data[1][1], a0),
                                complexMultiply(matrix.data[1][2], a1))
             new1 == complexAdd(complexMultiply(matrix.data[2][1], a0),
                                complexMultiply(matrix.data[2][2], a1))
         IN  SingleQubitGateLoopNoSkip(
                 ArraySet(ArraySet(h, arr, index, c(new0.real, new0.imaginary)),
                          arr, pairIndex, c(new1.real, new1.imaginary)),
                 arr, index + 1, dimension, bitMask, matrix)

\* the loop over the basis indices: each pair is handled when the bit is 0
RECURSIVE SingleQubitGateLoop(_, _, _, _, _, _)
SingleQubitGateLoop(h, arr, index, dimension, bitMask, matrix) ==
    IF index >= dimension THEN h
    ELSE IF BitIsSet(index, bitMask)
    THEN SingleQubitGateLoop(h, arr, index + 1, dimension, bitMask, matrix)
    ELSE LET pairIndex == index + bitMask
             a0 == ArrayGet(h, arr, index)
             a1 == ArrayGet(h, arr, pairIndex)
             new0 == complexAdd(complexMultiply(matrix.data[1][1], a0),
                                complexMultiply(matrix.data[1][2], a1))
             new1 == complexAdd(complexMultiply(matrix.data[2][1], a0),
                                complexMultiply(matrix.data[2][2], a1))
         IN  SingleQubitGateLoop(
                 ArraySet(ArraySet(h, arr, index, c(new0.real, new0.imaginary)),
                          arr, pairIndex, c(new1.real, new1.imaginary)),
                 arr, index + 1, dimension, bitMask, matrix)

applySingleQubitGateToGlobalState(h, globalState, qubitIndex, matrix) ==
    LET numberOfQubits == h.vectors[globalState].numberOfQubits
        amplitudes == h.vectors[globalState].amplitudes
    IN  IF matrix.rows # 2 \/ matrix.cols # 2
        THEN [heap |-> h, threw |-> TRUE]
        ELSE IF qubitIndex < 0 \/ qubitIndex >= numberOfQubits
        THEN [heap |-> h, threw |-> TRUE]
        ELSE [heap |-> SingleQubitGateLoop(h, amplitudes, 0, Pow2(numberOfQubits),
                                           Pow2(qubitIndex), matrix),
              threw |-> FALSE]

\* ---------------------------------------------------- applyCNOTToGlobalState
\* mutant: the target bit added instead of flipped
CNOTNewIndexAdds(index, bitControl, bitTarget) ==
    IF BitIsSet(index, bitControl) THEN index + bitTarget ELSE index

\* mutant: the target bit flipped when the control bit is 0
CNOTNewIndexOnClearControl(index, bitControl, bitTarget) ==
    IF ~BitIsSet(index, bitControl)
    THEN (IF BitIsSet(index, bitTarget) THEN index - bitTarget ELSE index + bitTarget)
    ELSE index

\* newIndex: the destination of the amplitude at index
CNOTNewIndex(index, bitControl, bitTarget) ==
    IF BitIsSet(index, bitControl)
    THEN (IF BitIsSet(index, bitTarget) THEN index - bitTarget ELSE index + bitTarget)
    ELSE index

\* mutant: the permutation done in place, an amplitude already moved to
\* index being read instead of the old one
RECURSIVE CNOTLoopInPlace(_, _, _, _, _, _, _)
CNOTLoopInPlace(objects, oldArray, newAmplitudes, index, dimension, bitControl, bitTarget) ==
    IF index >= dimension THEN [objects |-> objects, newAmplitudes |-> newAmplitudes]
    ELSE LET amplitude == IF newAmplitudes[index + 1] # 0
                          THEN objects[newAmplitudes[index + 1]]
                          ELSE objects[oldArray[index + 1]]
             newIndex == CNOTNewIndex(index, bitControl, bitTarget)
         IN  CNOTLoopInPlace(Append(objects, c(amplitude.real, amplitude.imaginary)),
                             oldArray,
                             [newAmplitudes EXCEPT ![newIndex + 1] = Len(objects) + 1],
                             index + 1, dimension, bitControl, bitTarget)

\* the loop placing each old amplitude at its destination in newAmplitudes
\* (an address sequence; 0 marks an element of new Array(dimension) not yet set)
RECURSIVE CNOTLoop(_, _, _, _, _, _, _)
CNOTLoop(objects, oldArray, newAmplitudes, index, dimension, bitControl, bitTarget) ==
    IF index >= dimension THEN [objects |-> objects, newAmplitudes |-> newAmplitudes]
    ELSE LET amplitude == objects[oldArray[index + 1]]
             newIndex == CNOTNewIndex(index, bitControl, bitTarget)
         IN  CNOTLoop(Append(objects, c(amplitude.real, amplitude.imaginary)),
                      oldArray,
                      [newAmplitudes EXCEPT ![newIndex + 1] = Len(objects) + 1],
                      index + 1, dimension, bitControl, bitTarget)

\* mutant: the permuted amplitudes stored into the old array
applyCNOTOverwritingOld(h, globalState, controlQubit, targetQubit) ==
    LET numberOfQubits == h.vectors[globalState].numberOfQubits
        oldAmplitudes == h.vectors[globalState].amplitudes
    IN  IF controlQubit < 0 \/ controlQubit >= numberOfQubits
        THEN [heap |-> h, threw |-> TRUE]
        ELSE IF targetQubit < 0 \/ targetQubit >= numberOfQubits
        THEN [heap |-> h, threw |-> TRUE]
        ELSE IF controlQubit = targetQubit
        THEN [heap |-> h, threw |-> TRUE]
        ELSE
        LET dimension == Pow2(numberOfQubits)
            done == CNOTLoop(h.objects, h.arrays[oldAmplitudes],
                             [i \in 1..dimension |-> 0], 0, dimension,
                             Pow2(controlQubit), Pow2(targetQubit))
        IN  [heap |-> [vectors |-> h.vectors,
                       arrays |-> [h.arrays EXCEPT ![oldAmplitudes] = done.newAmplitudes],
                       objects |-> done.objects],
             threw |-> FALSE]

\* mutant: control === target not refused
applyCNOTAllowingEqual(h, globalState, controlQubit, targetQubit) ==
    LET numberOfQubits == h.vectors[globalState].numberOfQubits
        oldAmplitudes == h.vectors[globalState].amplitudes
    IN  IF controlQubit < 0 \/ controlQubit >= numberOfQubits
        THEN [heap |-> h, threw |-> TRUE]
        ELSE IF targetQubit < 0 \/ targetQubit >= numberOfQubits
        THEN [heap |-> h, threw |-> TRUE]
        ELSE
        LET dimension == Pow2(numberOfQubits)
            done == CNOTLoop(h.objects, h.arrays[oldAmplitudes],
                             [i \in 1..dimension |-> 0], 0, dimension,
                             Pow2(controlQubit), Pow2(targetQubit))
        IN  [heap |-> [vectors |-> [h.vectors EXCEPT ![globalState].amplitudes =
                                        Len(h.arrays) + 1],
                       arrays |-> Append(h.arrays, done.newAmplitudes),
                       objects |-> done.objects],
             threw |-> FALSE]

applyCNOTToGlobalState(h, globalState, controlQubit, targetQubit) ==
    LET numberOfQubits == h.vectors[globalState].numberOfQubits
        oldAmplitudes == h.vectors[globalState].amplitudes
    IN  IF controlQubit < 0 \/ controlQubit >= numberOfQubits
        THEN [heap |-> h, threw |-> TRUE]
        ELSE IF targetQubit < 0 \/ targetQubit >= numberOfQubits
        THEN [heap |-> h, threw |-> TRUE]
        ELSE IF controlQubit = targetQubit
        THEN [heap |-> h, threw |-> TRUE]
        ELSE
        LET dimension == Pow2(numberOfQubits)
            done == CNOTLoop(h.objects, h.arrays[oldAmplitudes],
                             [i \in 1..dimension |-> 0], 0, dimension,
                             Pow2(controlQubit), Pow2(targetQubit))
        IN  [heap |-> [vectors |-> [h.vectors EXCEPT ![globalState].amplitudes =
                                        Len(h.arrays) + 1],
                       arrays |-> Append(h.arrays, done.newAmplitudes),
                       objects |-> done.objects],
             threw |-> FALSE]

\* ---------------------------------------------------- cloneGlobalStateVector
\* mutant: a new GlobalStateVector sharing the amplitude array of the old one
cloneSharingArray(h, state) ==
    [h EXCEPT !.vectors = Append(@, [numberOfQubits |-> h.vectors[state].numberOfQubits,
                                     amplitudes |-> h.vectors[state].amplitudes])]

\* mutant: a new array holding the same amplitude objects (amplitudes.slice())
cloneSharingObjects(h, state) ==
    [h EXCEPT !.vectors = Append(@, [numberOfQubits |-> h.vectors[state].numberOfQubits,
                                     amplitudes |-> Len(h.arrays) + 1]),
              !.arrays = Append(@, h.arrays[h.vectors[state].amplitudes])]

\* a new GlobalStateVector with a new array of new amplitude objects; the
\* clone is the last vector of the returned heap
cloneGlobalStateVector(h, state) ==
    LET old == h.arrays[h.vectors[state].amplitudes]
        base == Len(h.objects)
    IN  [vectors |-> Append(h.vectors,
                            [numberOfQubits |-> h.vectors[state].numberOfQubits,
                             amplitudes |-> Len(h.arrays) + 1]),
         arrays |-> Append(h.arrays, [i \in 1..Len(old) |-> base + i]),
         objects |-> h.objects \o [i \in 1..Len(old) |->
                        c(h.objects[old[i]].real, h.objects[old[i]].imaginary)]]

\* ------------------------------------------------------------ circuit grid
\* GateCell: null, or a cell with its kind and, for CNOT, hasTarget and
\* targetRow; targetRow is <<>> when it is not a number
NullCell == [kind |-> "null", hasTarget |-> FALSE, targetRow |-> <<>>]

SingleQubitKinds == {"H", "X", "Y", "Z"}

Cell(kind) == [kind |-> kind, hasTarget |-> FALSE, targetRow |-> <<>>]

\* the non-null cells a grid of nQubits rows is drawn from: a CNOT control may
\* name any row, also itself or a row outside the grid
GateCells(nQubits) ==
    { Cell(k) : k \in SingleQubitKinds \cup {"MEASURE", "CNOT"} }
    \cup { [kind |-> "CNOT", hasTarget |-> TRUE, targetRow |-> <<>>],
           [kind |-> "CNOT", hasTarget |-> FALSE, targetRow |-> <<0>>] }
    \cup { [kind |-> "CNOT", hasTarget |-> TRUE, targetRow |-> <<t>>] : t \in -1..nQubits }

\* createEmptyCircuit(nQubits, nCols)
createEmptyCircuit(nQubits, nCols) ==
    [nQubits |-> nQubits, nCols |-> nCols,
     grid |-> [r \in 1..nQubits |-> [k \in 1..nCols |-> NullCell]]]

\* grid[row][col]
GridCell(circ, row, col) == circ.grid[row + 1][col + 1]

\* the circuits with at most MaxGates gates
Circuits ==
    UNION { UNION { UNION {
        { [nQubits |-> n, nCols |-> m,
           grid |-> [r \in 1..n |-> [k \in 1..m |->
                        IF <<r - 1, k - 1>> \in S THEN f[<<r - 1, k - 1>>] ELSE NullCell]]]
          : f \in [S -> GateCells(n)] }
        : S \in { T \in SUBSET ((0..(n - 1)) \X (0..(m - 1))) : Cardinality(T) <= MaxGates } }
        : m \in 0..MaxCols }
        : n \in 1..MaxQubits }

\* --------------------------------------------------------- the grid as data
\* A grid heap holds the Circuit objects, the grid arrays (one address per
\* row) and the row arrays (one cell per column); an address is an index.
EmptyGridHeap == [circuits |-> <<>>, grids |-> <<>>, rowArrays |-> <<>>]

\* a grid heap holding one Circuit with the given cells, each row its own array
GridHeapWith(circ) ==
    [circuits |-> << [nQubits |-> circ.nQubits, nCols |-> circ.nCols, grid |-> 1] >>,
     grids |-> << [r \in 1..Len(circ.grid) |-> r] >>,
     rowArrays |-> circ.grid]

\* the cells of a Circuit object, row by row
GridValues(gh, circ) ==
    [r \in 1..Len(gh.grids[gh.circuits[circ].grid]) |->
        gh.rowArrays[gh.grids[gh.circuits[circ].grid][r]]]

\* the Circuit object as a value
CircuitValue(gh, circ) ==
    [nQubits |-> gh.circuits[circ].nQubits, nCols |-> gh.circuits[circ].nCols,
     grid |-> GridValues(gh, circ)]

\* row < 0 || row >= nQubits || col < 0 || col >= nCols
OutOfBounds(nQubits, nCols, rw, cl) == rw < 0 \/ rw >= nQubits \/ cl < 0 \/ cl >= nCols

\* getCell(circuit, row, col): null if out of bounds, else grid[row][col]
getCell(gh, circ, rw, cl) ==
    IF OutOfBounds(gh.circuits[circ].nQubits, gh.circuits[circ].nCols, rw, cl)
    THEN NullCell
    ELSE gh.rowArrays[gh.grids[gh.circuits[circ].grid][rw + 1]][cl + 1]

\* mutant: the cell written into the row array of the argument
setCellInPlace(gh, circ, rw, cl, cell) ==
    IF OutOfBounds(gh.circuits[circ].nQubits, gh.circuits[circ].nCols, rw, cl)
    THEN [heap |-> gh, circuit |-> circ]
    ELSE [heap |-> [gh EXCEPT !.rowArrays[gh.grids[gh.circuits[circ].grid][rw + 1]][cl + 1]
                                  = cell,
                              !.circuits = Append(@, gh.circuits[circ])],
          circuit |-> Len(gh.circuits) + 1]

\* mutant: the bounds test taken against the wrong dimensions
setCellSwappedBounds(gh, circ, rw, cl, cell) ==
    IF OutOfBounds(gh.circuits[circ].nCols, gh.circuits[circ].nQubits, rw, cl)
    THEN [heap |-> gh, circuit |-> circ]
    ELSE LET oldGrid == gh.grids[gh.circuits[circ].grid]
             base == Len(gh.rowArrays)
         IN  [heap |->
                 [circuits |-> Append(gh.circuits,
                                      [nQubits |-> gh.circuits[circ].nQubits,
                                       nCols |-> gh.circuits[circ].nCols,
                                       grid |-> Len(gh.grids) + 1]),
                  grids |-> Append(gh.grids, [r \in 1..Len(oldGrid) |-> base + r]),
                  rowArrays |-> gh.rowArrays \o
                      [r \in 1..Len(oldGrid) |->
                          [k \in 1..Len(gh.rowArrays[oldGrid[r]]) |->
                              IF r - 1 = rw /\ k - 1 = cl THEN cell
                              ELSE gh.rowArrays[oldGrid[r]][k]]]],
              circuit |-> Len(gh.circuits) + 1]

\* setCell(circuit, row, col, cell): the argument itself if out of bounds,
\* else a new Circuit whose grid is a new array of new row arrays
setCell(gh, circ, rw, cl, cell) ==
    IF OutOfBounds(gh.circuits[circ].nQubits, gh.circuits[circ].nCols, rw, cl)
    THEN [heap |-> gh, circuit |-> circ]
    ELSE LET oldGrid == gh.grids[gh.circuits[circ].grid]
             base == Len(gh.rowArrays)
         IN  [heap |->
                 [circuits |-> Append(gh.circuits,
                                      [nQubits |-> gh.circuits[circ].nQubits,
                                       nCols |-> gh.circuits[circ].nCols,
                                       grid |-> Len(gh.grids) + 1]),
                  grids |-> Append(gh.grids, [r \in 1..Len(oldGrid) |-> base + r]),
                  rowArrays |-> gh.rowArrays \o
                      [r \in 1..Len(oldGrid) |->
                          [k \in 1..Len(gh.rowArrays[oldGrid[r]]) |->
                              IF r - 1 = rw /\ k - 1 = cl THEN cell
                              ELSE gh.rowArrays[oldGrid[r]][k]]]],
              circuit |-> Len(gh.circuits) + 1]

\* the cells the grid calls are made with: null, a gate, a CNOT control
GridCells == { NullCell, Cell("H"),
               [kind |-> "CNOT", hasTarget |-> TRUE, targetRow |-> <<1>>] }

\* ----------------------------------------------------------- initial states
\* the single-qubit states alpha|0> + beta|1> of the six presets
PresetStates ==
    { [alpha |-> c(One, Zero), beta |-> c(Zero, Zero)],
      [alpha |-> c(Zero, Zero), beta |-> c(One, Zero)],
      [alpha |-> c(InvSqrt2, Zero), beta |-> c(InvSqrt2, Zero)],
      [alpha |-> c(InvSqrt2, Zero), beta |-> c(NNeg(InvSqrt2), Zero)],
      [alpha |-> c(InvSqrt2, Zero), beta |-> c(Zero, InvSqrt2)],
      [alpha |-> c(InvSqrt2, Zero), beta |-> c(Zero, NNeg(InvSqrt2))] }

\* mutant: the tensor product with qubit 0 as the most significant bit
RECURSIVE TensorAmplitudeMsbFirst(_, _, _, _)
TensorAmplitudeMsbFirst(localStates, index, q, amp) ==
    IF q >= Len(localStates) THEN amp
    ELSE TensorAmplitudeMsbFirst(localStates, index, q + 1,
             complexMultiply(amp,
                 IF (index \div Pow2(Len(localStates) - 1 - q)) % 2 = 0
                 THEN localStates[q + 1].alpha
                 ELSE localStates[q + 1].beta))

\* the tensor product: the amplitude at a basis index, qubit 0 = bit 0
RECURSIVE TensorAmplitude(_, _, _, _)
TensorAmplitude(localStates, index, q, amp) ==
    IF q >= Len(localStates) THEN amp
    ELSE TensorAmplitude(localStates, index, q + 1,
             complexMultiply(amp, IF (index \div Pow2(q)) % 2 = 0
                                  THEN localStates[q + 1].alpha
                                  ELSE localStates[q + 1].beta))

\* the presets |0> and |1>
BasisPresets == { p \in PresetStates : p.alpha = c(Zero, Zero) \/ p.beta = c(Zero, Zero) }

ProductAmplitudes(nQubits, localStates) ==
    [i \in 1..Pow2(nQubits) |-> TensorAmplitude(localStates, i - 1, 0, c(One, Zero))]

ZeroAmplitudes(nQubits) == [i \in 1..Pow2(nQubits) |-> c(Zero, Zero)]

\* the amplitude values of the states passed to the driver: the products of
\* presets with at most MaxSuperposed qubits in superposition, and the
\* all-zero vector
InitialAmplitudes(nQubits) ==
    { ProductAmplitudes(nQubits, ls) :
        ls \in { l \in [1..nQubits -> PresetStates] :
                 Cardinality({ q \in 1..nQubits : l[q] \notin BasisPresets }) <= MaxSuperposed } }
    \cup { ZeroAmplitudes(nQubits) }

\* a heap holding one GlobalStateVector with the given amplitude values
HeapWith(nQubits, values) ==
    [vectors |-> << [numberOfQubits |-> nQubits, amplitudes |-> 1] >>,
     arrays |-> << [i \in 1..Len(values) |-> i] >>,
     objects |-> values]

\* the values Math.random() is drawn from: k/DrawDen, 0 <= k < DrawDen
Draws == { Mk(k, 0, DrawDen) : k \in 0..(DrawDen - 1) }

\* ----------------------------------------------- computeMeasurementResults
\* amp.real * amp.real + amp.imaginary * amp.imaginary
amplitudeProbSquared(amp) ==
    NAdd(NMul(amp.real, amp.real), NMul(amp.imaginary, amp.imaginary))

\* the loop over the basis states: <<sum0, sum1>>
RECURSIVE InferSums(_, _, _, _, _)
InferSums(values, qubitIndex, basis, sum0, sum1) ==
    IF basis >= Len(values) THEN <<sum0, sum1>>
    ELSE IF (basis \div Pow2(qubitIndex)) % 2 = 1
    THEN InferSums(values, qubitIndex, basis + 1, sum0,
                   NAdd(sum1, amplitudeProbSquared(values[basis + 1])))
    ELSE InferSums(values, qubitIndex, basis + 1,
                   NAdd(sum0, amplitudeProbSquared(values[basis + 1])), sum1)

\* mutant: sum0 > sum1 ? 1 : 0
inferMeasuredBitSwapped(h, state, qubitIndex) ==
    LET sums == InferSums(AmplitudeValues(h, state), qubitIndex, 0, Zero, Zero)
    IN  IF NLess(sums[2], sums[1]) THEN 1 ELSE 0

\* sum1 > sum0 ? 1 : 0
inferMeasuredBitForQubit(h, state, qubitIndex) ==
    LET sums == InferSums(AmplitudeValues(h, state), qubitIndex, 0, Zero, Zero)
    IN  IF NLess(sums[1], sums[2]) THEN 1 ELSE 0

\* the record "row:col" -> bit, a function on the keys <<row, col>>
computeMeasurementResults(circ, h, statesPerColumn) ==
    LET cols == IF circ.nCols < Len(statesPerColumn) THEN circ.nCols
                ELSE Len(statesPerColumn)
    IN  [key \in { k \in (0..(circ.nQubits - 1)) \X (0..(cols - 1)) :
                     /\ GridCell(circ, k[1], k[2]) # NullCell
                     /\ GridCell(circ, k[1], k[2]).kind = "MEASURE" }
            |-> inferMeasuredBitForQubit(h, statesPerColumn[key[2] + 1], key[1])]

\* ------------------------------------------------- simulateCircuitByColumn
\* In the actions, the result of an engine call is bound once with
\* \E res \in {call}, so that it is computed once per step.
VARIABLES
    circuit,        \* the Circuit argument
    heap,           \* vectors, arrays and amplitude objects
    initialState,   \* address of the caller's initialState
    initialValues,  \* the amplitude values of initialState at the call
    currentState,   \* address of the working copy (0 before the call)
    columnStates,   \* addresses of the snapshots pushed so far
    col,            \* the column loop variable
    row,            \* the row loop variable
    pc,             \* position in simulateCircuitByColumn
    log,            \* the engine calls made so far, in order
    eheap,          \* engine calls on their own: the heap after the last call
    last,           \* engine calls on their own: the last call made
    gheap,          \* grid calls on their own: circuits, grids and row arrays
    edit,           \* grid calls on their own: the last call made
    written,        \* grid calls on their own: the cell last set at each position
    nodes,                  \* editor: the gate nodes on the canvas
    numQubits,              \* editor: the nQubits state of useCircuitState
    selectedNodeId,         \* editor: the selected gate node, if any
    selectedNodeKind,       \* editor: the gate kind picked in the palette, if any
    isPlacingCNOTParter,    \* editor: a first CNOT is placed, its partner expected
    CNOTPartnerRow,         \* editor: the row of that first CNOT
    CNOTPartnerCol,         \* editor: the column of that first CNOT
    globalStatesPerColumn,  \* playback: the snapshots stored by the last Run
    measureOutcomes,        \* playback: the measurement results stored by the last Run
    runMaxCols,             \* playback: the nCols of the circuit of the last Run
    runProgress,            \* playback: the progress t of the sweep, in ticks
    currentCol,             \* playback: the column the sweep has reached
    isRunning,              \* playback: the sweep is on
    tickLoops,              \* playback: the animation-frame chains alive
    lastRun,                \* playback: what the most recent Run computed
    qubitInputs,            \* inputs: the list of per-qubit inputs
    inputQubits,            \* inputs: the nQubits the computations are given
    builtState,             \* inputs: the result of buildInitialGlobalStateFromInputs
    columnEntries,          \* inputs: the entries of QubitInputsColumn
    part4Entries,           \* inputs: the entries of the QubitInputsColumn of part_004
    visualizerEntries       \* inputs: the entries of buildEntriesFromState

driverVars == <<circuit, heap, initialState, initialValues, currentState,
                columnStates, col, row, pc, log>>

engineVars == <<eheap, last>>

gridVars == <<gheap, edit, written>>

editorVars == <<nodes, numQubits, selectedNodeId, selectedNodeKind,
                isPlacingCNOTParter, CNOTPartnerRow, CNOTPartnerCol>>

playbackVars == <<globalStatesPerColumn, measureOutcomes, runMaxCols, runProgress,
                  currentCol, isRunning, tickLoops, lastRun>>

inputVars == <<qubitInputs, inputQubits, builtState, columnEntries, part4Entries,
               visualizerEntries>>

vars == <<circuit, heap, initialState, initialValues, currentState,
          columnStates, col, row, pc, log, eheap, last, gheap, edit, written,
          editorVars, playbackVars, inputVars>>

\* null and undefined are the empty sequence, a value v is <<v>>
Null == <<>>

\* the editor state of useCircuitState at mount: useState(2), no gate node
EditorMounted ==
    /\ nodes = <<>>
    /\ numQubits = 2
    /\ selectedNodeId = Null
    /\ selectedNodeKind = Null
    /\ isPlacingCNOTParter = FALSE
    /\ CNOTPartnerRow = Null
    /\ CNOTPartnerCol = Null

\* the run state of useCircuitState at mount
PlaybackMounted ==
    /\ globalStatesPerColumn = Null
    /\ measureOutcomes = Null
    /\ runMaxCols = 0
    /\ runProgress = Null
    /\ currentCol = Null
    /\ isRunning = FALSE
    /\ tickLoops = {}
    /\ lastRun = Null

\* no initial-state computation made
InputsUnset ==
    /\ qubitInputs = <<>>
    /\ inputQubits = 0
    /\ builtState = Null
    /\ columnEntries = Null
    /\ part4Entries = Null
    /\ visualizerEntries = Null

NoCall == [op |-> "none", qubit |-> -1, target |-> -1, r |-> NaN,
           result |-> NoResult, before |-> <<>>, numberOfQubits |-> 0,
           threw |-> FALSE, drew |-> FALSE, previous |-> <<>>]

NoEdit == [op |-> "none", row |-> -1, col |-> -1, cell |-> NullCell,
           argument |-> 0, before |-> createEmptyCircuit(0, 0),
           circuit |-> 0, result |-> NullCell]

Init ==
    /\ circuit \in Circuits
    /\ initialValues \in InitialAmplitudes(circuit.nQubits)
    /\ heap = HeapWith(circuit.nQubits, initialValues)
    /\ initialState = 1
    /\ currentState = 0
    /\ columnStates = <<>>
    /\ col = 0
    /\ row = 0
    /\ pc = "call"
    /\ log = <<>>
    /\ eheap = EmptyHeap
    /\ last = NoCall
    /\ gheap = EmptyGridHeap
    /\ edit = NoEdit
    /\ written = <<>>
    /\ EditorMounted
    /\ PlaybackMounted
    /\ InputsUnset

\* mutant: the column loop stops one column early
ColumnLoopStopsEarly(circ, column) ==
    IF column + 1 < circ.nCols THEN "unitaries" ELSE "return"

\* for (col = ...; col < nCols; ...): the loop body starts with phase 1
ColumnLoop(circ, column) == IF column < circ.nCols THEN "unitaries" ELSE "return"

\* mutant: the MEASURE loop placed before the CNOT loop
PhaseAfterMeasureFirst(phase) ==
    IF phase = "unitaries" THEN "measures"
    ELSE IF phase = "measures" THEN "cnots"
    ELSE "snapshot"

\* the order of the three row loops and the snapshot within one column
PhaseAfter(phase) ==
    IF phase = "unitaries" THEN "cnots"
    ELSE IF phase = "cnots" THEN "measures"
    ELSE "snapshot"

\* let currentState = cloneGlobalStateVector(initialState); columnStates = []
Call ==
    /\ pc = "call"
    /\ heap' = cloneGlobalStateVector(heap, initialState)
    /\ currentState' = Len(heap'.vectors)
    /\ columnStates' = <<>>
    /\ col' = 0
    /\ row' = 0
    /\ pc' = ColumnLoop(circuit, 0)
    /\ UNCHANGED <<circuit, initialState, initialValues, log, engineVars, gridVars, editorVars, playbackVars, inputVars>>

\* mutant: the error of an engine call caught and dropped
RowLoopNextCatching(threw) ==
    IF row + 1 < circuit.nQubits THEN /\ pc' = pc
                                      /\ row' = row + 1
    ELSE /\ pc' = PhaseAfter(pc)
         /\ row' = 0

\* the end of one iteration of a row loop: the next row, or the next phase;
\* an error thrown by the engine call leaves the function
RowLoopNext(threw) ==
    IF threw THEN /\ pc' = "thrown"
                  /\ row' = row
    ELSE IF row + 1 < circuit.nQubits THEN /\ pc' = pc
                                           /\ row' = row + 1
    ELSE /\ pc' = PhaseAfter(pc)
         /\ row' = 0

LogEntry(op, target, r, result, before, res) ==
    [op |-> op, col |-> col, row |-> row, target |-> target, r |-> r,
     snapshots |-> Len(columnStates), result |-> result, before |-> before,
     after |-> AmplitudeValues(res.heap, currentState), threw |-> res.threw]

\* 1) one iteration of the loop applying the 1-qubit unitaries of the column
ApplyUnitary ==
    /\ pc = "unitaries"
    /\ LET cell == GridCell(circuit, row, col)
           matrix == getMatrixForGateKind(cell.kind)
       IN  IF cell # NullCell /\ cell.kind \in SingleQubitKinds /\ matrix # <<>>
           THEN \E res \in {applySingleQubitGateToGlobalState(heap, currentState, row, matrix[1])} :
                    /\ heap' = res.heap
                    /\ log' = Append(log, LogEntry(cell.kind, -1, NaN, NoResult,
                                         AmplitudeValues(heap, currentState), res))
                    /\ RowLoopNext(res.threw)
           ELSE /\ UNCHANGED <<heap, log>>
                /\ RowLoopNext(FALSE)
    /\ UNCHANGED <<circuit, initialState, initialValues, currentState, columnStates, col,
                   engineVars, gridVars, editorVars, playbackVars, inputVars>>

\* mutant: hasTarget not looked at
IsCNOTIgnoringHasTarget(cell) == cell.kind = "CNOT" /\ Len(cell.targetRow) = 1

\* (cell.kind === "CNOT") && cell.hasTarget && (typeof cell.targetRow === "number")
IsCNOTWithTarget(cell) == cell.kind = "CNOT" /\ cell.hasTarget /\ Len(cell.targetRow) = 1

\* 2) one iteration of the loop applying the CNOTs of the column
ApplyCNOT ==
    /\ pc = "cnots"
    /\ LET cell == GridCell(circuit, row, col)
       IN  IF cell # NullCell /\ IsCNOTWithTarget(cell)
           THEN \E res \in {applyCNOTToGlobalState(heap, currentState, row, cell.targetRow[1])} :
                    /\ heap' = res.heap
                    /\ log' = Append(log, LogEntry("CNOT", cell.targetRow[1], NaN, NoResult,
                                         AmplitudeValues(heap, currentState), res))
                    /\ RowLoopNext(res.threw)
           ELSE /\ UNCHANGED <<heap, log>>
                /\ RowLoopNext(FALSE)
    /\ UNCHANGED <<circuit, initialState, initialValues, currentState, columnStates, col,
                   engineVars, gridVars, editorVars, playbackVars, inputVars>>

\* 3) one iteration of the loop applying the MEASURE gates of the column
ApplyMeasure ==
    /\ pc = "measures"
    /\ LET cell == GridCell(circuit, row, col)
       IN  IF cell # NullCell /\ cell.kind = "MEASURE"
           THEN \E r \in Draws : \E res \in {measureQubit(heap, currentState, row, r)} :
                    /\ heap' = res.heap
                    /\ log' = Append(log, LogEntry("MEASURE", -1, r, res.result,
                                         AmplitudeValues(heap, currentState), res))
                    /\ RowLoopNext(res.threw)
           ELSE /\ UNCHANGED <<heap, log>>
                /\ RowLoopNext(FALSE)
    /\ UNCHANGED <<circuit, initialState, initialValues, currentState, columnStates, col,
                   engineVars, gridVars, editorVars, playbackVars, inputVars>>

\* 4) columnStates.push(cloneGlobalStateVector(currentState)); col++
Snapshot ==
    /\ pc = "snapshot"
    /\ heap' = cloneGlobalStateVector(heap, currentState)
    /\ columnStates' = Append(columnStates, Len(heap'.vectors))
    /\ col' = col + 1
    /\ pc' = ColumnLoop(circuit, col + 1)
    /\ UNCHANGED <<circuit, initialState, initialValues, currentState, row, log,
                   engineVars, gridVars, editorVars, playbackVars, inputVars>>

\* return columnStates
Return ==
    /\ pc = "return"
    /\ pc' = "returned"
    /\ UNCHANGED <<circuit, heap, initialState, initialValues, currentState,
                   columnStates, col, row, log, engineVars, gridVars, editorVars, playbackVars, inputVars>>

Next ==
    \/ Call
    \/ ApplyUnitary
    \/ ApplyCNOT
    \/ ApplyMeasure
    \/ Snapshot
    \/ Return

Spec == Init /\ [][Next]_vars

\* ------------------------------------------------ engine calls on their own
\* A caller holds one GlobalStateVector (address 1 of eheap) and calls the
\* engine functions on it in any order, with any qubit index.  Before each
\* call the unreachable objects are dropped and the addresses renumbered,
\* which no JavaScript code can observe.

\* the amplitude values a caller may start from: every product of presets,
\* the same scaled by 2 (not normalised), and the all-zero vector
EngineInitialAmplitudes(nQubits) ==
    { ProductAmplitudes(nQubits, ls) : ls \in [1..nQubits -> PresetStates] }
    \cup { [i \in 1..Pow2(nQubits) |->
              complexMultiply(c(Mk(2, 0, 1), Zero),
                              ProductAmplitudes(nQubits, ls)[i])]
           : ls \in [1..nQubits -> BasisPresets] }
    \cup { ZeroAmplitudes(nQubits) }

\* a vector whose array is longer than 2^numberOfQubits: the amplitudes of a
\* basis state of nQubits + 1 qubits
MismatchedAmplitudes(nQubits) ==
    { ProductAmplitudes(nQubits + 1, ls) : ls \in [1..(nQubits + 1) -> BasisPresets] }

\* the matrices a caller passes: the catalog and two that are not 2x2
EngineMatrixKinds == SingleQubitKinds \cup {"1x2", "3x2"}

EngineMatrix(kind) ==
    IF kind = "1x2"
    THEN [rows |-> 1, cols |-> 2, data |-> << <<c(One, Zero), c(Zero, Zero)>> >>]
    ELSE IF kind = "3x2"
    THEN [rows |-> 3, cols |-> 2,
          data |-> << <<c(Zero, Zero), c(One, Zero)>>,
                      <<c(One, Zero), c(Zero, Zero)>>,
                      <<c(Zero, Zero), c(Zero, Zero)>> >>]
    ELSE getMatrixForGateKind(kind)[1]

Compact(h) == HeapWith(h.vectors[1].numberOfQubits, AmplitudeValues(h, 1))

\* the record of a call; previous holds the values and the result of the call
\* before it when that was the same call (same function, same qubits) and
\* did not throw
EngineCall(op, qubit, target, r, before, res) ==
    [op |-> op, qubit |-> qubit, target |-> target, r |-> r,
     result |-> IF op = "MEASURE" THEN res.result ELSE NoResult,
     before |-> before, numberOfQubits |-> eheap.vectors[1].numberOfQubits,
     threw |-> res.threw,
     drew |-> IF op = "MEASURE" THEN res.drew ELSE FALSE,
     previous |-> IF last.op = op /\ last.qubit = qubit /\ last.target = target
                     /\ ~last.threw
                  THEN << [before |-> last.before, result |-> last.result] >>
                  ELSE <<>>]

InitEngine ==
    /\ circuit = createEmptyCircuit(1, 0)
    /\ initialValues = <<>>
    /\ heap = EmptyHeap
    /\ initialState = 0
    /\ currentState = 0
    /\ columnStates = <<>>
    /\ col = 0
    /\ row = 0
    /\ pc = "engine"
    /\ log = <<>>
    /\ \/ \E n \in 1..MaxQubits : \E values \in EngineInitialAmplitudes(n) :
              eheap = HeapWith(n, values)
       \/ \E values \in MismatchedAmplitudes(1) : eheap = HeapWith(1, values)
    /\ last = NoCall
    /\ gheap = EmptyGridHeap
    /\ edit = NoEdit
    /\ written = <<>>
    /\ EditorMounted
    /\ PlaybackMounted
    /\ InputsUnset

\* applySingleQubitGateToGlobalState(state, qubitIndex, matrix)
EngineGate ==
    /\ pc = "engine"
    /\ \E kind \in EngineMatrixKinds :
       \E qubitIndex \in -1..eheap.vectors[1].numberOfQubits :
           \E h \in {Compact(eheap)} :
           \E res \in {applySingleQubitGateToGlobalState(
                          h, 1, qubitIndex, EngineMatrix(kind))} :
               /\ eheap' = res.heap
               /\ last' = EngineCall(kind, qubitIndex, -1, NaN, AmplitudeValues(h, 1), res)
    /\ UNCHANGED <<driverVars, gridVars, editorVars, playbackVars, inputVars>>

\* applyCNOTToGlobalState(state, controlQubit, targetQubit)
EngineCNOT ==
    /\ pc = "engine"
    /\ \E controlQubit \in -1..eheap.vectors[1].numberOfQubits :
       \E targetQubit \in -1..eheap.vectors[1].numberOfQubits :
           \E h \in {Compact(eheap)} :
           \E res \in {applyCNOTToGlobalState(h, 1, controlQubit, targetQubit)} :
               /\ eheap' = res.heap
               /\ last' = EngineCall("CNOT", controlQubit, targetQubit, NaN,
                                     AmplitudeValues(h, 1), res)
    /\ UNCHANGED <<driverVars, gridVars, editorVars, playbackVars, inputVars>>

\* measureQubit(state, qubitIndex), Math.random() returning r
EngineMeasure ==
    /\ pc = "engine"
    /\ \E qubitIndex \in -1..eheap.vectors[1].numberOfQubits :
       \E r \in Draws :
           \E h \in {Compact(eheap)} :
           \E res \in {measureQubit(h, 1, qubitIndex, r)} :
               /\ eheap' = res.heap
               /\ last' = EngineCall("MEASURE", qubitIndex, -1, r,
                                     AmplitudeValues(h, 1), res)
    /\ UNCHANGED <<driverVars, gridVars, editorVars, playbackVars, inputVars>>

NextEngine ==
    \/ EngineGate
    \/ EngineCNOT
    \/ EngineMeasure

SpecEngine == InitEngine /\ [][NextEngine]_vars

\* -------------------------------------------------- grid calls on their own
\* A caller creates an empty circuit and calls setCell and getCell on the
\* circuit it holds, at any position, also outside the grid; it goes on with
\* the circuit setCell returned (circuit = setCell(circuit, ...)).  Before
\* each call the objects the caller no longer holds are dropped.

\* the positions of a grid of nQubits x nCols cells
GridPositions(nQubits, nCols) == (0..(nQubits - 1)) \X (0..(nCols - 1))

CompactGrid(gh, circ) == GridHeapWith(CircuitValue(gh, circ))

InitGrid ==
    /\ circuit = createEmptyCircuit(1, 0)
    /\ initialValues = <<>>
    /\ heap = EmptyHeap
    /\ initialState = 0
    /\ currentState = 0
    /\ columnStates = <<>>
    /\ col = 0
    /\ row = 0
    /\ pc = "grid"
    /\ log = <<>>
    /\ eheap = EmptyHeap
    /\ last = NoCall
    /\ \E nQubits \in 1..MaxQubits : \E nCols \in 0..MaxCols :
           /\ gheap = GridHeapWith(createEmptyCircuit(nQubits, nCols))
           /\ written = [pos \in GridPositions(nQubits, nCols) |-> NullCell]
    /\ edit = [NoEdit EXCEPT !.circuit = 1]
    /\ EditorMounted
    /\ PlaybackMounted
    /\ InputsUnset

\* circuit = setCell(circuit, row, col, cell)
GridSetCell ==
    /\ pc = "grid"
    /\ \E gh \in {CompactGrid(gheap, edit.circuit)} :
       \E rw \in -1..gh.circuits[1].nQubits :
       \E cl \in -1..gh.circuits[1].nCols :
       \E cell \in GridCells :
       \E res \in {setCell(gh, 1, rw, cl, cell)} :
           /\ gheap' = res.heap
           /\ edit' = [op |-> "setCell", row |-> rw, col |-> cl, cell |-> cell,
                       argument |-> 1, before |-> CircuitValue(gh, 1),
                       circuit |-> res.circuit, result |-> NullCell]
           /\ written' = IF <<rw, cl>> \in DOMAIN written
                         THEN [written EXCEPT ![<<rw, cl>>] = cell]
                         ELSE written
    /\ UNCHANGED <<driverVars, engineVars, editorVars, playbackVars, inputVars>>

\* getCell(circuit, row, col)
GridGetCell ==
    /\ pc = "grid"
    /\ \E gh \in {CompactGrid(gheap, edit.circuit)} :
       \E rw \in -1..gh.circuits[1].nQubits :
       \E cl \in -1..gh.circuits[1].nCols :
           /\ gheap' = gh
           /\ edit' = [op |-> "getCell", row |-> rw, col |-> cl, cell |-> NullCell,
                       argument |-> 1, before |-> CircuitValue(gh, 1),
                       circuit |-> 1, result |-> getCell(gh, 1, rw, cl)]
    /\ UNCHANGED <<driverVars, engineVars, editorVars, playbackVars, inputVars, written>>

NextGrid ==
    \/ GridSetCell
    \/ GridGetCell

SpecGrid == InitGrid /\ [][NextGrid]_vars

\* ------------------------------------------------------- the circuit editor
\* The gate nodes of the canvas, in array order, and the handlers that place
\* and delete them.  A mouse position is given by the row and the column it
\* is nearest to, before snapToGrid clamps them.

MaxEditorCols == 2

MaxEditorNodes == 2

\* layout.ts
ROW_HEIGHT == 80

Y_OFFSET == 0

X_WIRE == 120

COL_WIDTH == 120

MAX_COLS == 6

GATE_Y_OFFSET == 20

\* the gate kinds picked in the palette
EditorKinds == {"H", "CNOT"}

\* Math.round(a / b), b > 0
RoundDiv(a, b) == (2 * a + b) \div (2 * b)

Min(a, b) == IF a < b THEN a ELSE b

Max(a, b) == IF a > b THEN a ELSE b

rowY(rw) == Y_OFFSET + rw * ROW_HEIGHT

colX(cl) == X_WIRE + cl * COL_WIDTH

\* the nearest cell, row clamped to [0, nQubits-1], col to [0, MAX_COLS-1]
snapToGrid(flowX, flowY, nQubits) ==
    [row |-> Max(0, Min(nQubits - 1, RoundDiv(flowY - Y_OFFSET, ROW_HEIGHT))),
     col |-> Max(0, Min(MAX_COLS - 1, RoundDiv(flowX - X_WIRE, COL_WIDTH)))]

\* the cell of a node, from its position
gridFromNode(node) ==
    [row |-> RoundDiv(node.position.y + GATE_Y_OFFSET - Y_OFFSET, ROW_HEIGHT),
     col |-> RoundDiv(node.position.x - X_WIRE, COL_WIDTH)]

\* nodes.some(n => gridFromNode(n) is (row, col))
isCellOccupied(nds, rw, cl) ==
    \E i \in 1..Len(nds) :
        gridFromNode(nds[i]).row = rw /\ gridFromNode(nds[i]).col = cl

\* nodes.find(pred), from the nodes that satisfy pred in array order: the
\* first of them, as <<node>>, or Null
FirstOf(found) == IF found = <<>> THEN Null ELSE <<Head(found)>>

\* the node placeNodeAt makes; its id names the cell it was placed at
NewNode(kind, rw, cl, hasPartner, partnerRow, partnerCol) ==
    [id |-> <<rw, cl>>,
     position |-> [x |-> colX(cl), y |-> rowY(rw) - GATE_Y_OFFSET],
     kind |-> kind, row |-> rw, col |-> cl,
     hasPartner |-> hasPartner,
     partnerRow |-> IF hasPartner THEN partnerRow ELSE Null,
     partnerCol |-> IF hasPartner THEN partnerCol ELSE Null]

\* the lonely first CNOT placeNodeAt removes when another kind is placed
IsLonelyFirstCNOT(n) ==
    /\ n.kind = "CNOT"
    /\ ~n.hasPartner
    /\ <<n.row>> = CNOTPartnerRow
    /\ <<n.col>> = CNOTPartnerCol

\* the selection after the nodes changed: a removed node is no longer selected
SelectionAmong(nds, selected) ==
    IF selected # Null /\ \E i \in 1..Len(nds) : nds[i].id = selected[1]
    THEN selected ELSE Null

\* placeNodeAt(kind, row, col), kind not null
placeNodeAt(kind, rw, cl) ==
    LET KeepsNode(n) == ~IsLonelyFirstCNOT(n)
        first == kind = "CNOT" /\ ~isPlacingCNOTParter
        node_has_partner == kind = "CNOT" /\ isPlacingCNOTParter
        bail == isPlacingCNOTParter /\ kind # "CNOT"
        base == IF bail /\ CNOTPartnerRow # Null /\ CNOTPartnerCol # Null
                THEN SelectSeq(nodes, KeepsNode)
                ELSE nodes
        newNode == NewNode(kind, rw, cl, node_has_partner,
                           CNOTPartnerRow, CNOTPartnerCol)
    IN  /\ nodes' = IF isCellOccupied(base, rw, cl) THEN base
                    ELSE Append(base, newNode)
        /\ selectedNodeId' = IF isCellOccupied(base, rw, cl)
                             THEN SelectionAmong(base, selectedNodeId)
                             ELSE <<newNode.id>>
        /\ isPlacingCNOTParter' = first
        /\ CNOTPartnerRow' = IF first THEN <<rw>>
                             ELSE IF bail THEN Null ELSE CNOTPartnerRow
        /\ CNOTPartnerCol' = IF first THEN <<cl>>
                             ELSE IF bail THEN Null ELSE CNOTPartnerCol
        /\ selectedNodeKind' = IF first THEN <<"CNOT">> ELSE Null
        /\ UNCHANGED numQubits

\* the mouse positions: the centre of a cell, also one row or column outside
MouseRows == -1..3

MouseCols == -1..MaxEditorCols

\* GatePalette onClick: pick the kind, or drop it when it is picked already
PaletteClick ==
    /\ pc = "editor"
    /\ \E kind \in EditorKinds :
           selectedNodeKind' = IF selectedNodeKind = <<kind>> THEN Null ELSE <<kind>>
    /\ UNCHANGED <<nodes, numQubits, selectedNodeId, isPlacingCNOTParter,
                   CNOTPartnerRow, CNOTPartnerCol>>
    /\ UNCHANGED <<driverVars, engineVars, gridVars, playbackVars, inputVars>>

\* handlePaletteDragStart
PaletteDragStart ==
    /\ pc = "editor"
    /\ \E kind \in EditorKinds : selectedNodeKind' = <<kind>>
    /\ UNCHANGED <<nodes, numQubits, selectedNodeId, isPlacingCNOTParter,
                   CNOTPartnerRow, CNOTPartnerCol>>
    /\ UNCHANGED <<driverVars, engineVars, gridVars, playbackVars, inputVars>>

\* handleCanvasClick
CanvasClick ==
    /\ pc = "editor"
    /\ selectedNodeKind # Null
    /\ Len(nodes) < MaxEditorNodes
    /\ \E mouseRow \in MouseRows : \E mouseCol \in MouseCols :
       \E cell \in {snapToGrid(colX(mouseCol), rowY(mouseRow), numQubits)} :
       \E cl \in {IF selectedNodeKind = <<"CNOT">> /\ isPlacingCNOTParter
                     /\ CNOTPartnerCol # Null
                  THEN CNOTPartnerCol[1] ELSE cell.col} :
           /\ ~isCellOccupied(nodes, cell.row, cl)
           /\ placeNodeAt(selectedNodeKind[1], cell.row, cl)
    /\ UNCHANGED <<driverVars, engineVars, gridVars, playbackVars, inputVars>>

\* handleDrop: the kind is selectedNodeKind, set by handlePaletteDragStart
CanvasDrop ==
    /\ pc = "editor"
    /\ selectedNodeKind # Null
    /\ Len(nodes) < MaxEditorNodes
    /\ \E mouseRow \in MouseRows : \E mouseCol \in MouseCols :
       \E cell \in {snapToGrid(colX(mouseCol), rowY(mouseRow), numQubits)} :
           placeNodeAt(selectedNodeKind[1], cell.row, cell.col)
    /\ UNCHANGED <<driverVars, engineVars, gridVars, playbackVars, inputVars>>

\* handleSelectionChange: a gate node is selected, or none
SelectionChange ==
    /\ pc = "editor"
    /\ \/ selectedNodeId' = Null
       \/ \E i \in 1..Len(nodes) : selectedNodeId' = <<nodes[i].id>>
    /\ UNCHANGED <<nodes, numQubits, selectedNodeKind, isPlacingCNOTParter,
                   CNOTPartnerRow, CNOTPartnerCol>>
    /\ UNCHANGED <<driverVars, engineVars, gridVars, playbackVars, inputVars>>

\* the nodes the Delete key removes: the selected node and, for a CNOT, the
\* first node found to be its partner
idsToDelete(nds, selected) ==
    LET IsSelected(n) == n.id = selected
        selectedNode == FirstOf(SelectSeq(nds, IsSelected))
        data == selectedNode[1]
        IsPartnerOfSecond(n) ==
            n.kind = "CNOT" /\ <<n.row>> = data.partnerRow /\ <<n.col>> = data.partnerCol
        PointsToFirst(n) ==
            /\ n.kind = "CNOT" /\ n.hasPartner
            /\ n.partnerRow = <<data.row>> /\ n.partnerCol = <<data.col>>
        partner == IF selectedNode = Null \/ data.kind # "CNOT" THEN Null
                   ELSE IF data.hasPartner /\ data.partnerRow # Null
                           /\ data.partnerCol # Null
                   THEN FirstOf(SelectSeq(nds, IsPartnerOfSecond))
                   ELSE FirstOf(SelectSeq(nds, PointsToFirst))
    IN  {selected} \cup (IF partner = Null THEN {} ELSE {partner[1].id})

\* useDeleteSelectedGate: the Delete or Backspace key
DeleteSelected ==
    /\ pc = "editor"
    /\ selectedNodeId # Null
    /\ \E ids \in {idsToDelete(nodes, selectedNodeId[1])} :
           LET Kept(n) == n.id \notin ids
           IN  nodes' = SelectSeq(nodes, Kept)
    /\ selectedNodeId' = Null
    /\ UNCHANGED <<numQubits, selectedNodeKind, isPlacingCNOTParter,
                   CNOTPartnerRow, CNOTPartnerCol>>
    /\ UNCHANGED <<driverVars, engineVars, gridVars, playbackVars, inputVars>>

\* the effect on nQubits: the gates on removed rails are dropped
GatesOnRails(nds, nQubits) ==
    LET OnRail(n) == gridFromNode(n).row < nQubits
    IN  SelectSeq(nds, OnRail)

\* onIncQubits: setNQubits(n => Math.min(3, n + 1)), then the effect
IncQubits ==
    /\ pc = "editor"
    /\ numQubits' = Min(3, numQubits + 1)
    /\ nodes' = GatesOnRails(nodes, numQubits')
    /\ selectedNodeId' = SelectionAmong(nodes', selectedNodeId)
    /\ UNCHANGED <<selectedNodeKind, isPlacingCNOTParter, CNOTPartnerRow, CNOTPartnerCol>>
    /\ UNCHANGED <<driverVars, engineVars, gridVars, playbackVars, inputVars>>

\* onDecQubits: setNQubits(n => Math.max(1, n - 1)), then the effect
DecQubits ==
    /\ pc = "editor"
    /\ numQubits' = Max(1, numQubits - 1)
    /\ nodes' = GatesOnRails(nodes, numQubits')
    /\ selectedNodeId' = SelectionAmong(nodes', selectedNodeId)
    /\ UNCHANGED <<selectedNodeKind, isPlacingCNOTParter, CNOTPartnerRow, CNOTPartnerCol>>
    /\ UNCHANGED <<driverVars, engineVars, gridVars, playbackVars, inputVars>>

\* buildCircuitFromNodes(nodes, nQubits): the grid handed to the driver on Run
RECURSIVE SetCellsFrom(_, _, _)
SetCellsFrom(circ, nds, i) ==
    IF i > Len(nds) THEN circ
    ELSE LET cell == gridFromNode(nds[i])
             inGrid == /\ cell.row >= 0 /\ cell.row < circ.nQubits
                       /\ cell.col >= 0 /\ cell.col < circ.nCols
         IN  SetCellsFrom(
                 IF inGrid
                 THEN [circ EXCEPT !.grid[cell.row + 1][cell.col + 1] =
                          [kind |-> nds[i].kind, hasTarget |-> nds[i].hasPartner,
                           targetRow |-> nds[i].partnerRow]]
                 ELSE circ,
                 nds, i + 1)

InferredCols(nds) ==
    IF nds = <<>> THEN 0
    ELSE CHOOSE m \in { gridFromNode(nds[i]).col : i \in 1..Len(nds) } \cup {0} :
             \A i \in 1..Len(nds) : gridFromNode(nds[i]).col <= m

buildCircuitFromNodes(nds, nQubits) ==
    SetCellsFrom(createEmptyCircuit(nQubits, Max(1, Min(InferredCols(nds) + 1, MAX_COLS))),
                 nds, 1)

IdleCore(position) ==
    /\ circuit = createEmptyCircuit(1, 0)
    /\ initialValues = <<>>
    /\ heap = EmptyHeap
    /\ initialState = 0
    /\ currentState = 0
    /\ columnStates = <<>>
    /\ col = 0
    /\ row = 0
    /\ pc = position
    /\ log = <<>>
    /\ eheap = EmptyHeap
    /\ last = NoCall
    /\ gheap = EmptyGridHeap
    /\ edit = NoEdit
    /\ written = <<>>
    /\ EditorMounted
    /\ PlaybackMounted
    /\ InputsUnset

InitEditor == IdleCore("editor")

NextEditor ==
    \/ PaletteClick
    \/ PaletteDragStart
    \/ CanvasClick
    \/ CanvasDrop
    \/ SelectionChange
    \/ DeleteSelected
    \/ IncQubits
    \/ DecQubits

SpecEditor == InitEditor /\ [][NextEditor]_vars

\* ------------------------------------------------- the initial global state
\* The run handler's buildInitialGlobalStateFromInputs, the display column's
\* QubitInputsColumn and the visualizer's buildEntriesFromState, applied to
\* the same nQubits and the same list of inputs.  An angle is a number of
\* eighths of a turn (pi/4); Math.cos and Math.sin are taken at their exact
\* values, their rounding in doubles is not modelled.

\* Math.cos(k * pi / 4)
CosEighth(k) ==
    LET r == k % 8
    IN  IF r = 0 THEN One
        ELSE IF r = 1 \/ r = 7 THEN InvSqrt2
        ELSE IF r = 2 \/ r = 6 THEN Zero
        ELSE IF r = 4 THEN MinusOne
        ELSE NNeg(InvSqrt2)

\* Math.sin(k * pi / 4)
SinEighth(k) == CosEighth(k + 6)

\* the presets of setQubitPreset, theta and phi in eighths of a turn
QubitPresets ==
    [zero |-> [theta |-> 0, phi |-> 0],
     one |-> [theta |-> 4, phi |-> 0],
     plus |-> [theta |-> 2, phi |-> 0],
     minus |-> [theta |-> 2, phi |-> 4],
     plusI |-> [theta |-> 2, phi |-> 2],
     minusI |-> [theta |-> 2, phi |-> 6]]

\* the inputs a qubit is given: the presets, and the same angles combined freely
QubitInputValues == [theta : {0, 2, 4}, phi : {0, 2, 4, 6}]

\* alpha = cos(theta/2), beta = sin(theta/2) (cos(phi) + i sin(phi))
LocalState(input) ==
    [alpha |-> c(CosEighth(input.theta \div 2), Zero),
     beta |-> c(NMul(SinEighth(input.theta \div 2), CosEighth(input.phi)),
                NMul(SinEighth(input.theta \div 2), SinEighth(input.phi)))]

\* Array.from({ length: nQubits }, (_, q) => ...) of the run handler
LocalStates(nQubits, inputs) ==
    [q \in 1..nQubits |->
        \* qubitInputs[q] ?? { theta: 0, phi: 0 }
        LocalState(IF q <= Len(inputs) THEN inputs[q] ELSE [theta |-> 0, phi |-> 0])]

\* buildInitialGlobalStateFromInputs(nQubits, qubitInputs)
buildInitialGlobalStateFromInputs(nQubits, inputs) ==
    [numberOfQubits |-> nQubits,
     amplitudes |-> ProductAmplitudes(nQubits, LocalStates(nQubits, inputs))]

\* the loop of reverseBits, from bit q on; result |= mask sets a bit of result
RECURSIVE reverseBitsLoop(_, _, _, _)
reverseBitsLoop(idx, nQubits, q, result) ==
    LET BitOr(mask) == IF BitIsSet(result, mask) THEN result ELSE result + mask
    IN  IF q >= nQubits THEN result
        ELSE reverseBitsLoop(idx, nQubits, q + 1,
                 IF BitIsSet(idx, Pow2(q)) THEN BitOr(Pow2(nQubits - 1 - q))
                 ELSE result)

\* reverseBits(index, nQubits)
reverseBits(idx, nQubits) == reverseBitsLoop(idx, nQubits, 0, 0)

\* i.toString(2): the binary digits of i, the most significant first
RECURSIVE ToBinary(_)
ToBinary(i) == IF i < 2 THEN <<i>> ELSE Append(ToBinary(i \div 2), i % 2)

\* the label of an entry, without its bars: i.toString(2).padStart(nQubits, '0')
BinaryLabel(i, nQubits) ==
    LET digits == ToBinary(i)
        width == Max(nQubits, Len(digits))
    IN  [k \in 1..width |->
            IF k <= width - Len(digits) THEN 0 ELSE digits[k - (width - Len(digits))]]

\* Number.isFinite(rawProb) ? Math.max(0, rawProb) : 0
SafeProb(rawProb) ==
    IF ~IsFinite(rawProb) \/ rawProb = NaN THEN Zero
    ELSE IF NLess(rawProb, Zero) THEN Zero ELSE rawProb

\* sumProb after the entries 1..k
RECURSIVE SumProb(_, _)
SumProb(entries, k) ==
    IF k = 0 THEN Zero ELSE NAdd(SumProb(entries, k - 1), entries[k].probability)

\* entries.map(e => ({ ...e, probability: e.probability / norm }))
NormalizeEntries(entries) ==
    LET sumProb == SumProb(entries, Len(entries))
        norm == IF NLess(Zero, sumProb) THEN sumProb ELSE One
    IN  [k \in 1..Len(entries) |->
            [entries[k] EXCEPT !.probability = NDiv(entries[k].probability, norm)]]

\* the entry of an amplitude under a label
Entry(label, amp) ==
    [label |-> label, real |-> amp.real, imaginary |-> amp.imaginary,
     probability |-> SafeProb(MagnitudeSquared(amp))]

\* mutant: the display column reading the qubits from the top bit down
RECURSIVE ColumnAmplitudeMsbFirst(_, _, _, _)
ColumnAmplitudeMsbFirst(localStates, idx, q, amp) ==
    IF q >= Len(localStates) THEN amp
    ELSE ColumnAmplitudeMsbFirst(localStates, idx, q + 1,
             complexMultiply(amp,
                 IF (idx \div Pow2(Len(localStates) - 1 - q)) % 2 = 0
                 THEN localStates[q + 1].alpha
                 ELSE localStates[q + 1].beta))

\* the inner loop of the display column: for (q = 0; q < nQubits; q++)
RECURSIVE ColumnAmplitude(_, _, _, _)
ColumnAmplitude(localStates, idx, q, amp) ==
    IF q >= Len(localStates) THEN amp
    ELSE ColumnAmplitude(localStates, idx, q + 1,
             complexMultiply(amp, IF (idx \div Pow2(q)) % 2 = 0
                                  THEN localStates[q + 1].alpha
                                  ELSE localStates[q + 1].beta))

\* the localStates of the display column
ColumnLocalStates(nQubits, inputs) ==
    [q \in 1..nQubits |->
        \* qubitInputs[q] ?? { theta: 0, phi: 0 }
        LocalState(IF q <= Len(inputs) THEN inputs[q] ELSE [theta |-> 0, phi |-> 0])]

\* QubitInputsColumn of qubitInputRender.tsx, the one the canvas imports
QubitInputsColumn(nQubits, inputs) ==
    IF nQubits <= 0 \/ Len(inputs) = 0 THEN [shown |-> FALSE, entries |-> <<>>]
    ELSE [shown |-> TRUE,
          entries |-> NormalizeEntries(
              [k \in 1..Pow2(nQubits) |->
                  Entry(BinaryLabel(k - 1, nQubits),
                        ColumnAmplitude(ColumnLocalStates(nQubits, inputs),
                                        k - 1, 0, c(One, Zero)))])]

\* QubitInputsColumn as unnamed/part_004 has it: patternIndex = reverseBits(displayIndex)
QubitInputsColumnOfPart4(nQubits, inputs) ==
    IF nQubits <= 0 \/ Len(inputs) = 0 THEN [shown |-> FALSE, entries |-> <<>>]
    ELSE [shown |-> TRUE,
          entries |-> NormalizeEntries(
              [k \in 1..Pow2(nQubits) |->
                  Entry(BinaryLabel(k - 1, nQubits),
                        ColumnAmplitude(ColumnLocalStates(nQubits, inputs),
                                        reverseBits(k - 1, nQubits), 0, c(One, Zero)))])]

\* buildEntriesFromState(state, nQubits) of the per-column visualizer
buildEntriesFromState(state, nQubits) ==
    LET amps == state.amplitudes
        \* amps[j] ?? { real: 0, imaginary: 0 }
        AmplitudeOrZero(j) == IF j + 1 <= Len(amps) THEN amps[j + 1] ELSE c(Zero, Zero)
    IN  NormalizeEntries(
            [k \in 1..Pow2(nQubits) |->
                Entry(BinaryLabel(k - 1, nQubits),
                      AmplitudeOrZero(reverseBits(k - 1, nQubits)))])

\* the mounted canvas with its rails set and a list of inputs: one per qubit,
\* or fewer, or more
InitInputs ==
    /\ circuit = createEmptyCircuit(1, 0)
    /\ initialValues = <<>>
    /\ heap = EmptyHeap
    /\ initialState = 0
    /\ currentState = 0
    /\ columnStates = <<>>
    /\ col = 0
    /\ row = 0
    /\ pc = "inputs"
    /\ log = <<>>
    /\ eheap = EmptyHeap
    /\ last = NoCall
    /\ gheap = EmptyGridHeap
    /\ edit = NoEdit
    /\ written = <<>>
    /\ EditorMounted
    /\ PlaybackMounted
    /\ inputQubits \in 1..MaxQubits
    /\ qubitInputs \in UNION { [1..k -> QubitInputValues] : k \in 0..MaxQubits }
    /\ builtState = Null
    /\ columnEntries = Null
    /\ part4Entries = Null
    /\ visualizerEntries = Null

\* const initialState = buildInitialGlobalStateFromInputs(nQubits, qubitInputs)
BuildInitialState ==
    /\ pc = "inputs"
    /\ builtState = Null
    /\ builtState' = <<buildInitialGlobalStateFromInputs(inputQubits, qubitInputs)>>
    /\ UNCHANGED <<qubitInputs, inputQubits, columnEntries, part4Entries, visualizerEntries>>
    /\ UNCHANGED <<driverVars, engineVars, gridVars, editorVars, playbackVars>>

\* <QubitInputsColumn /> rendered
RenderInputsColumn ==
    /\ pc = "inputs"
    /\ columnEntries = Null
    /\ columnEntries' = <<QubitInputsColumn(inputQubits, qubitInputs)>>
    /\ UNCHANGED <<qubitInputs, inputQubits, builtState, part4Entries, visualizerEntries>>
    /\ UNCHANGED <<driverVars, engineVars, gridVars, editorVars, playbackVars>>

\* the QubitInputsColumn of unnamed/part_004 rendered
RenderInputsColumnOfPart4 ==
    /\ pc = "inputs"
    /\ part4Entries = Null
    /\ part4Entries' = <<QubitInputsColumnOfPart4(inputQubits, qubitInputs)>>
    /\ UNCHANGED <<qubitInputs, inputQubits, builtState, columnEntries, visualizerEntries>>
    /\ UNCHANGED <<driverVars, engineVars, gridVars, editorVars, playbackVars>>

\* the visualizer's column of the state the run handler built
RenderVisualizerColumn ==
    /\ pc = "inputs"
    /\ builtState # Null
    /\ visualizerEntries = Null
    /\ visualizerEntries' = <<buildEntriesFromState(builtState[1], inputQubits)>>
    /\ UNCHANGED <<qubitInputs, inputQubits, builtState, columnEntries, part4Entries>>
    /\ UNCHANGED <<driverVars, engineVars, gridVars, editorVars, playbackVars>>

NextInputs ==
    \/ BuildInitialState
    \/ RenderInputsColumn
    \/ RenderInputsColumnOfPart4
    \/ RenderVisualizerColumn

SpecInputs == InitInputs /\ [][NextInputs]_vars

\* ------------------------------------------------------------ Run and playback
\* handleRun, the effect that sweeps the columns and what GlobalStateVisualizer
\* shows.  The snapshots simulateCircuitByColumn returns are one per column of
\* the built circuit, their values left open; a Run that throws stores
\* nothing.  Time is counted in PlaybackSteps-ths of durationMs.

MaxPlaybackCols == 2

PlaybackSteps == 3

\* the snapshots a run returns are drawn from these
RunSnapshots ==
    { buildInitialGlobalStateFromInputs(2, <<input>>) :
        input \in {QubitPresets.zero, QubitPresets.one} }

\* the effect on [isRunning, runMaxCols]: the cleanup of the previous run of
\* the effect, then its body. The animation-frame request of the body is
\* cancelled by the cleanup until it has fired
PlaybackEffect(loops, running, maxCols) ==
    LET cleaned == { l \in loops : ~l.first }
        newLoop == [elapsed |-> 0, first |-> TRUE]
    IN  IF ~running \/ maxCols <= 0 THEN cleaned ELSE cleaned \cup {newLoop}

\* handleRun
Run ==
    /\ pc = "playback"
    /\ \E circ \in {buildCircuitFromNodes(nodes, numQubits)} :
       \E statesPerColumn \in [1..circ.nCols -> RunSnapshots] :
       \E measurementResults \in
              [{ nodes[i].id : i \in { k \in 1..Len(nodes) : nodes[k].kind = "MEASURE" } }
                   -> {0, 1}] :
           /\ measureOutcomes' = <<measurementResults>>
           /\ globalStatesPerColumn' = <<statesPerColumn>>
           /\ lastRun' = <<[statesPerColumn |-> statesPerColumn,
                            measurementResults |-> measurementResults]>>
           /\ runMaxCols' = circ.nCols
           /\ runProgress' = <<0>>
           /\ currentCol' = <<0>>
           /\ isRunning' = TRUE
           /\ tickLoops' = IF ~isRunning \/ runMaxCols # circ.nCols
                           THEN PlaybackEffect(tickLoops, TRUE, circ.nCols)
                           ELSE tickLoops
    /\ UNCHANGED <<driverVars, engineVars, gridVars, editorVars, inputVars>>

\* mutant: the frame callback takes the column from the effect's own columns
ScanColOfRunCols(t, maxCols) == Min(maxCols - 1, (t * maxCols) \div PlaybackSteps)

\* Math.min(MAX_COLS - 1, Math.floor(t * MAX_COLS)), t in PlaybackSteps-ths
ScanCol(t, maxCols) == Min(MAX_COLS - 1, (t * MAX_COLS) \div PlaybackSteps)

\* tick(now): one animation frame of one chain
AnimationFrameOf(loop) ==
    /\ pc = "playback"
    /\ loop \in tickLoops
    /\ \E t \in {Min(PlaybackSteps, loop.elapsed)} :
           /\ runProgress' = <<t>>
           /\ currentCol' = <<ScanCol(t, runMaxCols)>>
           /\ IF t < PlaybackSteps
              THEN /\ tickLoops' = (tickLoops \ {loop}) \cup {[loop EXCEPT !.first = FALSE]}
                   /\ UNCHANGED isRunning
              ELSE /\ isRunning' = FALSE
                   /\ tickLoops' = IF isRunning
                                   THEN PlaybackEffect(tickLoops \ {loop}, FALSE, runMaxCols)
                                   ELSE tickLoops \ {loop}
    /\ UNCHANGED <<globalStatesPerColumn, measureOutcomes, runMaxCols, lastRun>>
    /\ UNCHANGED <<driverVars, engineVars, gridVars, editorVars, inputVars>>

\* the chains that can be alive
LoopValues == [elapsed : 0..PlaybackSteps, first : BOOLEAN]

AnimationFrame == \E loop \in LoopValues : AnimationFrameOf(loop)

\* performance.now() moves on by one step
ClockAdvance ==
    /\ pc = "playback"
    /\ \E l \in tickLoops : l.elapsed < PlaybackSteps
    /\ tickLoops' = { [l EXCEPT !.elapsed = Min(PlaybackSteps, l.elapsed + 1)] :
                        l \in tickLoops }
    /\ UNCHANGED <<globalStatesPerColumn, measureOutcomes, runMaxCols, runProgress,
                   currentCol, isRunning, lastRun>>
    /\ UNCHANGED <<driverVars, engineVars, gridVars, editorVars, inputVars>>

\* the circuit is edited between two runs: no gate, or one gate on rail 0
EditNodes ==
    /\ pc = "playback"
    /\ \E nds \in ({<<>>}
                   \cup { <<NewNode(kind, 0, cl, FALSE, Null, Null)>> :
                            kind \in {"H", "MEASURE"}, cl \in 0..(MaxPlaybackCols - 1) })
                  \ {nodes} :
           nodes' = nds
    /\ UNCHANGED <<numQubits, selectedNodeId, selectedNodeKind, isPlacingCNOTParter,
                   CNOTPartnerRow, CNOTPartnerCol>>
    /\ UNCHANGED <<driverVars, engineVars, gridVars, playbackVars, inputVars>>

\* GlobalStateVisualizer: the columns it renders with entries or as empty
\* columns; the others are placeholders
RevealedColumns ==
    IF currentCol = Null \/ globalStatesPerColumn = Null THEN {}
    ELSE IF Len(globalStatesPerColumn[1]) = 0 THEN {}
    ELSE { cl \in 0..((IF runMaxCols > 0 THEN runMaxCols ELSE MAX_COLS) - 1) :
             currentCol[1] >= cl }

\* statesPerColumn[col], the state the visualizer builds the entries from
ShownState(cl) ==
    IF cl + 1 <= Len(globalStatesPerColumn[1])
    THEN <<globalStatesPerColumn[1][cl + 1]>> ELSE Null

InitPlayback == IdleCore("playback")

NextPlayback ==
    \/ Run
    \/ AnimationFrame
    \/ ClockAdvance
    \/ EditNodes

SpecPlayback == InitPlayback /\ [][NextPlayback]_vars

\* requestAnimationFrame calls every callback it was given, and time passes
SpecPlaybackFair ==
    /\ SpecPlayback
    /\ WF_vars(ClockAdvance)
    /\ \A loop \in LoopValues : WF_vars(AnimationFrameOf(loop))

\* ------------------------------------------------------------- properties
\* the sum of the squared magnitudes of a sequence of amplitude values
RECURSIVE SumSquares(_, _)
SumSquares(values, n) ==
    IF n = 0 THEN Zero ELSE NAdd(SumSquares(values, n - 1), MagnitudeSquared(values[n]))

NormSquared(values) == SumSquares(values, Len(values))

Normalized(values) == NormSquared(values) = One

\* bit q of a basis index
QubitBit(index, q) == (index \div Pow2(q)) % 2

\* the cells of a column that make the driver call the engine
EngineRows(circ, column) ==
    { rw \in 0..(circ.nQubits - 1) :
        LET cell == GridCell(circ, rw, column)
        IN  \/ cell.kind \in SingleQubitKinds
            \/ cell.kind = "MEASURE"
            \/ cell.kind = "CNOT" /\ cell.hasTarget /\ Len(cell.targetRow) = 1 }

\* the working state once the columns 0..column are done: what the last
\* engine call of these columns left, or the initial values without any call
RECURSIVE ValuesAfterColumn(_, _)
ValuesAfterColumn(column, n) ==
    IF n = 0 THEN initialValues
    ELSE IF log[n].col <= column THEN log[n].after
    ELSE ValuesAfterColumn(column, n - 1)

NoErrorRaised == \A i \in 1..Len(log) : ~log[i].threw

Snapshots == 1..Len(columnStates)

SnapshotValues(k) == AmplitudeValues(heap, columnStates[k])

\* C1: when no error is raised the driver returns exactly nCols snapshots;
\* the engine calls are made in increasing column order, a call of column c
\* only after every gate of the columns before c has been applied, and
\* snapshot c holds the working state left by the calls of columns 0..c.
C1_SnapshotPerColumnInOrder ==
    NoErrorRaised =>
        /\ pc = "returned" => Len(columnStates) = circuit.nCols
        /\ \A i \in 1..Len(log) : \A j \in 1..Len(log) :
               i < j => log[i].col <= log[j].col
        /\ \A i \in 1..Len(log) : \A cc \in 0..(log[i].col - 1) :
               \A rw \in EngineRows(circuit, cc) :
                   \E j \in 1..(i - 1) : log[j].col = cc /\ log[j].row = rw
        /\ \A k \in Snapshots :
               /\ \A rw \in EngineRows(circuit, k - 1) :
                      \E j \in 1..Len(log) : log[j].col = k - 1 /\ log[j].row = rw
               /\ SnapshotValues(k) = ValuesAfterColumn(k - 1, Len(log))

\* a run that returned two snapshots after a gate in each of the two columns
C1_Witness ==
    /\ pc = "returned"
    /\ Len(columnStates) = 2
    /\ \E i \in 1..Len(log) : \E j \in 1..Len(log) :
           log[i].col = 0 /\ log[j].col = 1 /\ log[j].after # log[i].after

\* the rank of the phase an engine call belongs to
PhaseRank(op) == IF op \in SingleQubitKinds THEN 1 ELSE IF op = "CNOT" THEN 2 ELSE 3

\* C2: within one column every H/X/Y/Z call precedes every CNOT call and
\* every CNOT call precedes every MEASURE call, the rows of one phase in
\* increasing order; every call of column c is made before the snapshot of
\* column c, and that snapshot is pushed only when the three loops are over.
C2_ThreePhasesThenSnapshot ==
    /\ \A i \in 1..Len(log) : \A j \in 1..Len(log) :
           (i < j /\ log[i].col = log[j].col) =>
               \/ PhaseRank(log[i].op) < PhaseRank(log[j].op)
               \/ PhaseRank(log[i].op) = PhaseRank(log[j].op) /\ log[i].row < log[j].row
    /\ \A i \in 1..Len(log) : log[i].snapshots = log[i].col
    /\ pc \in {"unitaries", "cnots", "measures", "snapshot"} => Len(columnStates) = col
    /\ (pc = "snapshot" /\ NoErrorRaised) =>
           \A rw \in EngineRows(circuit, col) :
               \E j \in 1..Len(log) : log[j].col = col /\ log[j].row = rw

\* a column whose lower row was called first: a gate after a CNOT or MEASURE
\* row, or a CNOT after a MEASURE row, and the snapshot of the column pushed
C2_Witness ==
    /\ Len(columnStates) >= 1
    /\ \E i \in 1..Len(log) : \E j \in 1..Len(log) :
           /\ i < j
           /\ log[i].col = 0
           /\ log[j].col = 0
           /\ log[i].row > log[j].row
           /\ log[j].op = "MEASURE"
           /\ log[i].op = "CNOT"
           /\ ~log[i].threw

\* C3: the caller's initialState keeps its numberOfQubits and every amplitude,
\* at every point of the run, also of a run that ends in an error.
C3_InitialStateNotMutated ==
    /\ heap.vectors[initialState].numberOfQubits = circuit.nQubits
    /\ AmplitudeValues(heap, initialState) = initialValues

\* a run that measured, changed the working state and then ended in an error
C3_Witness ==
    /\ pc = "thrown"
    /\ \E i \in 1..Len(log) : log[i].op = "MEASURE" /\ log[i].after # initialValues

\* the amplitude objects of a GlobalStateVector
ObjectsOf(h, gs) ==
    { h.arrays[h.vectors[gs].amplitudes][i] :
        i \in 1..Len(h.arrays[h.vectors[gs].amplitudes]) }

\* the vectors the caller and the driver hold
HeldVectors ==
    {initialState} \cup { columnStates[k] : k \in Snapshots }
    \cup (IF currentState = 0 THEN {} ELSE {currentState})

NoSharing ==
    /\ \A k \in Snapshots : columnStates[k] \notin {initialState, currentState}
    /\ \A k \in Snapshots : \A m \in Snapshots : k # m => columnStates[k] # columnStates[m]
    /\ \A v \in HeldVectors : \A w \in HeldVectors :
           v # w => /\ heap.vectors[v].amplitudes # heap.vectors[w].amplitudes
                    /\ ObjectsOf(heap, v) \cap ObjectsOf(heap, w) = {}

SnapshotsFrozen ==
    \A k \in Snapshots :
        /\ k <= Len(columnStates')
        /\ columnStates'[k] = columnStates[k]
        /\ AmplitudeValues(heap', columnStates[k]) = AmplitudeValues(heap, columnStates[k])

\* C4: a snapshot, once pushed, keeps its place and every amplitude whatever
\* is applied later, and no snapshot shares its amplitude array or an
\* amplitude object with another snapshot, the working state or initialState.
C4_SnapshotsIndependent == [](NoSharing) /\ [][SnapshotsFrozen]_vars

\* two snapshots, the second differing from the first by a later column
C4_Witness ==
    /\ Len(columnStates) = 2
    /\ SnapshotValues(1) # SnapshotValues(2)
    /\ SnapshotValues(1) # initialValues

\* the state of the engine caller after the last call
EngineValues == AmplitudeValues(eheap, 1)

\* the sum of the squared magnitudes over the basis indices whose bit q is b
RECURSIVE SumSquaresOfBit(_, _, _, _)
SumSquaresOfBit(values, q, b, n) ==
    IF n = 0 THEN Zero
    ELSE NAdd(SumSquaresOfBit(values, q, b, n - 1),
              IF QubitBit(n - 1, q) = b THEN MagnitudeSquared(values[n]) ELSE Zero)

\* the probability of reading b on qubit q in a state with these values
ProbabilityOfBit(values, q, b) ==
    NDiv(SumSquaresOfBit(values, q, b, Len(values)), NormSquared(values))

MeasuredNormalized == last.op = "MEASURE" /\ ~last.threw /\ Normalized(last.before)

\* C5: after measureQubit(state, q) returned b on a normalized state, every
\* amplitude whose basis index has bit q different from b is exactly zero and
\* the squared magnitudes of the other amplitudes sum to 1.
C5_MeasurementCollapses ==
    MeasuredNormalized =>
        /\ last.result.resultBit \in {0, 1}
        /\ \A i \in 1..Len(EngineValues) :
               QubitBit(i - 1, last.qubit) # last.result.resultBit
                   => EngineValues[i] = c(Zero, Zero)
        /\ SumSquaresOfBit(EngineValues, last.qubit, last.result.resultBit,
                           Len(EngineValues)) = One

\* a measurement of a 2-qubit state that returned 1 and changed the state
C5_Witness ==
    /\ MeasuredNormalized
    /\ Len(last.before) = 4
    /\ last.result.resultBit = 1
    /\ EngineValues # last.before
    /\ Cardinality({ i \in 1..4 : EngineValues[i] # c(Zero, Zero) }) = 2

\* C6: on a normalized state measureQubit returns 0 exactly when the draw r
\* is below the probability P0 of reading 0, and 1 otherwise; the returned
\* outcome never has probability 0: a qubit that is |1> measures 1 and a
\* qubit that is |0> measures 0, whatever r is.
C6_OutcomeFollowsDraw ==
    MeasuredNormalized =>
        /\ last.result.resultBit = 0
               <=> NLess(last.r, ProbabilityOfBit(last.before, last.qubit, 0))
        /\ last.result.resultBit = 1
               <=> ~NLess(last.r, ProbabilityOfBit(last.before, last.qubit, 0))
        /\ ProbabilityOfBit(last.before, last.qubit, 0) = Zero => last.result.resultBit = 1
        /\ ProbabilityOfBit(last.before, last.qubit, 1) = Zero => last.result.resultBit = 0

\* a draw equal to 0 on a qubit that is |1>: the outcome is still 1
C6_Witness ==
    /\ MeasuredNormalized
    /\ last.r = Zero
    /\ ProbabilityOfBit(last.before, last.qubit, 0) = Zero
    /\ last.result.resultBit = 1

AllZero(values) == \A i \in 1..Len(values) : values[i] = c(Zero, Zero)

\* C7: measureQubit on a state whose amplitudes are all zero raises no error,
\* reports P0 = 1, returns the outcome 0 whatever the draw is, and leaves
\* every amplitude zero.
C7_ZeroStateMeasuresZero ==
    (/\ last.op = "MEASURE"
     /\ last.qubit >= 0
     /\ last.qubit < eheap.vectors[1].numberOfQubits
     /\ AllZero(last.before))
        => /\ ~last.threw
           /\ last.result.probabilityZero = One
           /\ last.result.resultBit = 0
           /\ AllZero(EngineValues)

\* C8: applyCNOT called twice in a row with the same control and target
\* leaves, at every index, the amplitude value held before the first call.
C8_CNOTTwiceIsIdentity ==
    (last.op = "CNOT" /\ ~last.threw /\ last.previous # <<>>)
        => EngineValues = last.previous[1].before

\* two such calls, the first of which moved amplitudes
C8_Witness ==
    /\ last.op = "CNOT"
    /\ ~last.threw
    /\ last.previous # <<>>
    /\ last.before # last.previous[1].before
    /\ Len(last.before) = 4

\* C9: from a normalized initial state every snapshot has squared magnitudes
\* summing to 1: each H/X/Y/Z call and each CNOT call leaves the sum as it
\* was and each measurement leaves it equal to 1.
C9_NormPreserved ==
    Normalized(initialValues) =>
        /\ \A k \in Snapshots : NormSquared(SnapshotValues(k)) = One
        /\ \A i \in 1..Len(log) :
               ~log[i].threw =>
                   /\ NormSquared(log[i].after) = NormSquared(log[i].before)
                   /\ NormSquared(log[i].after) = One

\* a returned run with a Hadamard and a measurement that collapsed the state
C9_Witness ==
    /\ pc = "returned"
    /\ Normalized(initialValues)
    /\ \E i \in 1..Len(log) : log[i].op = "H" /\ log[i].after # log[i].before
    /\ \E i \in 1..Len(log) : log[i].op = "MEASURE" /\ log[i].after # log[i].before

\* amplitudes.length == 2^numberOfQubits and no element undefined
WellFormed(h, gs) ==
    /\ Len(h.arrays[h.vectors[gs].amplitudes]) = Pow2(h.vectors[gs].numberOfQubits)
    /\ \A i \in 1..Len(h.arrays[h.vectors[gs].amplitudes]) :
           h.arrays[h.vectors[gs].amplitudes][i] \in 1..Len(h.objects)

\* C10: the working state keeps amplitudes.length == 2^numberOfQubits, its
\* numberOfQubits and a defined amplitude at every index across every
\* single-qubit gate, CNOT and measurement, and so does every snapshot.
C10_DimensionKept ==
    \A v \in HeldVectors :
        /\ heap.vectors[v].numberOfQubits = circuit.nQubits
        /\ WellFormed(heap, v)

\* a snapshot pushed after a CNOT that moved amplitudes
C10_Witness ==
    /\ Len(columnStates) >= 1
    /\ \E i \in 1..Len(log) :
           log[i].op = "CNOT" /\ ~log[i].threw /\ log[i].after # log[i].before

\* a CNOT cell without a valid target
MalformedCNOT(cell) ==
    cell.kind = "CNOT" /\ (~cell.hasTarget \/ cell.targetRow = <<>>)

\* the step a row loop takes on an empty cell
StepOverEmptyCell ==
    /\ heap' = heap
    /\ log' = log
    /\ columnStates' = columnStates
    /\ currentState' = currentState
    /\ col' = col
    /\ pc' # "thrown"
    /\ IF row + 1 < circuit.nQubits
       THEN pc' = pc /\ row' = row + 1
       ELSE /\ row' = 0
            /\ pc = "unitaries" => pc' = "cnots"
            /\ pc = "cnots" => pc' = "measures"
            /\ pc = "measures" => pc' = "snapshot"

MalformedCNOTNeverApplied ==
    \A i \in 1..Len(log) : ~MalformedCNOT(GridCell(circuit, log[i].row, log[i].col))

MalformedCNOTSteppedOver ==
    (/\ pc \in {"unitaries", "cnots", "measures"}
     /\ MalformedCNOT(GridCell(circuit, row, col)))
        => StepOverEmptyCell

\* C11: a CNOT cell whose hasTarget is not true or whose targetRow is missing
\* never reaches the engine and raises no error: each of the three row loops
\* steps over it as over an empty cell, leaving every amplitude, the log of
\* calls and the snapshots as they are and going on with the next row or phase.
C11_MalformedCNOTSkipped ==
    [](MalformedCNOTNeverApplied) /\ [][MalformedCNOTSteppedOver]_vars

\* a returned run whose column 0 holds a malformed CNOT in row 0 and, below
\* it, a CNOT that was applied and moved amplitudes
C11_Witness ==
    /\ pc = "returned"
    /\ circuit.nCols >= 1
    /\ MalformedCNOT(GridCell(circuit, 0, 0))
    /\ \E i \in 1..Len(log) :
           /\ log[i].op = "CNOT"
           /\ log[i].col = 0
           /\ log[i].row = 1
           /\ ~log[i].threw
           /\ log[i].after # log[i].before

\* C12: every applyCNOT call the driver makes has its target inside
\* [0, numberOfQubits) and different from the control row, and raises no error.
C12_DriverPassesValidTargets ==
    \A i \in 1..Len(log) :
        log[i].op = "CNOT" =>
            /\ log[i].target \in 0..(circuit.nQubits - 1)
            /\ log[i].target # log[i].row
            /\ ~log[i].threw

\* the MEASURE cells of the columns whose snapshot has been pushed
MeasuredCells ==
    { k \in (0..(circuit.nQubits - 1)) \X (0..(Len(columnStates) - 1)) :
        GridCell(circuit, k[1], k[2]).kind = "MEASURE" }

\* C13: for a run from a normalized initial state, at every point of the run
\* the measurement-result map computed from the snapshots pushed so far has an
\* entry for exactly the MEASURE cells of these columns, and the entry of a
\* cell is the bit measureQubit returned for that cell.
C13_ResultsAreDrawnBits ==
    Normalized(initialValues) =>
        LET results == computeMeasurementResults(circuit, heap, columnStates)
        IN  /\ DOMAIN results = MeasuredCells
            /\ \A key \in DOMAIN results :
                   \E i \in 1..Len(log) :
                       /\ log[i].op = "MEASURE"
                       /\ log[i].row = key[1]
                       /\ log[i].col = key[2]
                       /\ results[key] = log[i].result.resultBit

\* a returned run that measured both qubits in one column, the qubit measured
\* first giving 1 on a state where it could have given 0
C13_Witness ==
    /\ pc = "returned"
    /\ Normalized(initialValues)
    /\ Cardinality(MeasuredCells) = 2
    /\ \E i \in 1..Len(log) : \E j \in 1..Len(log) :
           /\ i < j
           /\ log[i].col = log[j].col
           /\ log[i].op = "MEASURE"
           /\ log[j].op = "MEASURE"
           /\ log[i].result.resultBit = 1
           /\ log[i].result.probabilityZero # Zero
           /\ computeMeasurementResults(circuit, heap, columnStates)
                  [<<log[i].row, log[i].col>>] = 1

\* the engine call that raised an error, if any, is the last one made
ErrorEndsRun ==
    /\ \A i \in 1..Len(log) : log[i].threw => (i = Len(log) /\ pc = "thrown")
    /\ pc = "thrown" => (log # <<>> /\ log[Len(log)].threw)
    /\ pc = "returned" => NoErrorRaised

\* C16: once an engine call has raised an error the driver is left with that
\* error: the failing call is the last engine call of the run (no later cell,
\* no retry), no snapshot is pushed after it, nothing is returned, and no
\* step of the driver follows.
C16_ErrorAbortsRun == [](ErrorEndsRun) /\ [][pc # "thrown"]_vars

\* an error in column 1, after the snapshot of column 0, with a MEASURE cell
\* of column 1 that was never applied
C16_Witness ==
    /\ pc = "thrown"
    /\ Len(columnStates) = 1
    /\ log[Len(log)].col = 1
    /\ \E rw \in 0..(circuit.nQubits - 1) :
           /\ GridCell(circuit, rw, 1).kind = "MEASURE"
           /\ \A i \in 1..Len(log) : ~(log[i].col = 1 /\ log[i].row = rw)

\* the matrix product on the amplitude values: qubit q, 2x2 matrix m
RefGate(values, q, m) ==
    [i \in 1..Len(values) |->
        LET low == IF QubitBit(i - 1, q) = 0 THEN i ELSE i - Pow2(q)
            high == low + Pow2(q)
        IN  IF QubitBit(i - 1, q) = 0
            THEN complexAdd(complexMultiply(m.data[1][1], values[low]),
                            complexMultiply(m.data[1][2], values[high]))
            ELSE complexAdd(complexMultiply(m.data[2][1], values[low]),
                            complexMultiply(m.data[2][2], values[high]))]

\* the permutation of a CNOT on the amplitude values
RefCNOT(values, control, target) ==
    [i \in 1..Len(values) |->
        IF QubitBit(i - 1, control) = 0 THEN values[i]
        ELSE IF QubitBit(i - 1, target) = 0 THEN values[i + Pow2(target)]
        ELSE values[i - Pow2(target)]]

\* the outcome of a measurement of qubit q with draw r
RefBit(values, q, r) ==
    IF NormSquared(values) = Zero THEN 1
    ELSE IF NLess(r, ProbabilityOfBit(values, q, 0)) THEN 0 ELSE 1

\* the collapsed and renormalized amplitude values
RefMeasure(values, q, r) ==
    LET b == RefBit(values, q, r)
        kept == SumSquaresOfBit(values, q, b, Len(values))
        scale == IF kept = Zero THEN One ELSE NDiv(One, NSqrt(kept))
    IN  [i \in 1..Len(values) |->
            IF QubitBit(i - 1, q) = b
            THEN c(NMul(values[i].real, scale), NMul(values[i].imaginary, scale))
            ELSE c(Zero, Zero)]

\* what a logged call must leave, given what it found
RefAfter(e) ==
    IF e.op = "CNOT"
    THEN (IF e.target \in 0..(circuit.nQubits - 1) /\ e.target # e.row
          THEN RefCNOT(e.before, e.row, e.target) ELSE e.before)
    ELSE IF e.op = "MEASURE" THEN RefMeasure(e.before, e.row, e.r)
    ELSE RefGate(e.before, e.row,
                 IF e.op = "H" THEN HadamardGate ELSE IF e.op = "X" THEN XGate
                 ELSE IF e.op = "Y" THEN YGate ELSE ZGate)

\* the place of a call in the order column, phase, row
CallKey(e) == (e.col * 3 + PhaseRank(e.op) - 1) * MaxQubits + e.row

\* the place the driver has arrived at
DriverKey ==
    IF pc \in {"unitaries", "cnots", "measures"}
    THEN (col * 3 + (IF pc = "unitaries" THEN 0 ELSE IF pc = "cnots" THEN 1 ELSE 2))
             * MaxQubits + row
    ELSE IF pc = "snapshot" THEN (col * 3 + 3) * MaxQubits
    ELSE IF pc = "call" THEN 0
    ELSE circuit.nCols * 3 * MaxQubits

\* the calls the circuit asks for, as <<key, op, target>>
CallsOf(circ) ==
    { << (k[2] * 3 + PhaseRank(GridCell(circ, k[1], k[2]).kind) - 1) * MaxQubits + k[1],
         GridCell(circ, k[1], k[2]).kind,
         IF GridCell(circ, k[1], k[2]).kind = "CNOT"
         THEN GridCell(circ, k[1], k[2]).targetRow[1] ELSE -1 >>
      : k \in { kk \in (0..(circ.nQubits - 1)) \X (0..(circ.nCols - 1)) :
                  kk[1] \in EngineRows(circ, kk[2]) } }

NoMeasureCell(circ) ==
    \A k \in (0..(circ.nQubits - 1)) \X (0..(circ.nCols - 1)) :
        GridCell(circ, k[1], k[2]).kind # "MEASURE"

\* the calls made, their arguments and their effects, and the snapshots, are
\* fixed by the circuit, the initial values and the draws
RunIsFunctionOfInputs ==
    /\ \A i \in 1..Len(log) :
           /\ <<CallKey(log[i]), log[i].op, log[i].target>> \in CallsOf(circuit)
           /\ \A j \in 1..Len(log) : i < j => CallKey(log[i]) < CallKey(log[j])
           /\ log[i].before = (IF i = 1 THEN initialValues ELSE log[i - 1].after)
           /\ log[i].after = RefAfter(log[i])
           /\ log[i].threw <=> (/\ log[i].op = "CNOT"
                                /\ ~(/\ log[i].target \in 0..(circuit.nQubits - 1)
                                     /\ log[i].target # log[i].row))
    /\ pc # "thrown" =>
           \A call \in CallsOf(circuit) :
               call[1] < DriverKey => \E i \in 1..Len(log) : CallKey(log[i]) = call[1]
    /\ \A k \in Snapshots : SnapshotValues(k) = ValuesAfterColumn(k - 1, Len(log))
    /\ Len(columnStates) = (IF pc \in {"returned", "return"} THEN circuit.nCols
                            ELSE IF pc = "thrown" THEN log[Len(log)].col ELSE col)

\* C19: the engine calls of a run, what each call finds and leaves, whether it
\* raises, and every snapshot are a function of the circuit, the initial
\* values and the draws of the MEASURE calls; a circuit without a MEASURE cell
\* makes no call with a draw, so two runs of it on the same initial state
\* make the same calls and return the same snapshots.
C19_DeterministicWithoutMeasure ==
    /\ RunIsFunctionOfInputs
    /\ \A i \in 1..Len(log) : log[i].op # "MEASURE" => log[i].r = NaN
    /\ NoMeasureCell(circuit) => \A i \in 1..Len(log) : log[i].r = NaN

\* a returned run of a circuit without MEASURE: a Hadamard in column 0 and a
\* CNOT in column 1, the two snapshots differing
C19_Witness ==
    /\ pc = "returned"
    /\ NoMeasureCell(circuit)
    /\ Len(columnStates) = 2
    /\ SnapshotValues(1) # SnapshotValues(2)
    /\ \E i \in 1..Len(log) : log[i].op = "H" /\ log[i].col = 0
    /\ \E i \in 1..Len(log) : log[i].op = "CNOT" /\ log[i].col = 1 /\ ~log[i].threw

\* index outside [0, numberOfQubits) of the state the last call was made on
OutOfRange(index) == index < 0 \/ index >= last.numberOfQubits

\* the last call was a gate or CNOT call with arguments the engine refuses
InvalidGateCall ==
    \/ /\ last.op \in EngineMatrixKinds
       /\ \/ EngineMatrix(last.op).rows # 2
          \/ EngineMatrix(last.op).cols # 2
          \/ OutOfRange(last.qubit)
    \/ /\ last.op = "CNOT"
       /\ \/ OutOfRange(last.qubit)
          \/ OutOfRange(last.target)
          \/ last.qubit = last.target

StateAsBefore ==
    /\ EngineValues = last.before
    /\ eheap.vectors[1].numberOfQubits = last.numberOfQubits

\* C14: applySingleQubitGate with a matrix that is not 2x2 or a qubit index
\* out of range, and applyCNOT with control or target out of range or equal,
\* raise an error and leave numberOfQubits and every amplitude as they were.
C14_InvalidGateCallRejected ==
    InvalidGateCall => (last.threw /\ StateAsBefore)

\* applyCNOT with control = target, both in range, on a 2-qubit state in
\* superposition
C14_Witness ==
    /\ last.op = "CNOT"
    /\ last.qubit = 1
    /\ last.target = 1
    /\ last.numberOfQubits = 2
    /\ last.threw
    /\ Cardinality({ i \in 1..Len(last.before) : last.before[i] # c(Zero, Zero) }) >= 2

\* the last call was a measureQubit call the engine refuses
InvalidMeasureCall ==
    /\ last.op = "MEASURE"
    /\ \/ OutOfRange(last.qubit)
       \/ Len(last.before) # Pow2(last.numberOfQubits)

\* C15: measureQubit with a qubit index out of range, or on a state whose
\* array length is not 2^numberOfQubits, raises an error without having
\* called Math.random(), returns no result and leaves every amplitude as it was.
C15_InvalidMeasureRejected ==
    InvalidMeasureCall =>
        /\ last.threw
        /\ ~last.drew
        /\ last.result = NoResult
        /\ StateAsBefore

\* measureQubit with a valid index on a 1-qubit state holding 4 amplitudes
C15_Witness ==
    /\ last.op = "MEASURE"
    /\ last.qubit = 0
    /\ last.numberOfQubits = 1
    /\ Len(last.before) = 4
    /\ last.threw

\* C20: the same catalog gate applied twice in a row to the same qubit leaves,
\* at every index, the amplitude value held before the first of the two calls.
C20_GateTwiceIsIdentity ==
    (last.op \in SingleQubitKinds /\ ~last.threw /\ last.previous # <<>>)
        => EngineValues = last.previous[1].before

\* Y applied twice to qubit 1 of a 2-qubit state, the first call having
\* changed the state
C20_Witness ==
    /\ last.op = "Y"
    /\ last.qubit = 1
    /\ ~last.threw
    /\ last.previous # <<>>
    /\ Len(last.before) = 4
    /\ last.before # last.previous[1].before

\* the position of the last grid call lies outside the grid it was made on
EditOutOfBounds ==
    \/ edit.row < 0
    \/ edit.row >= edit.before.nQubits
    \/ edit.col < 0
    \/ edit.col >= edit.before.nCols

\* C17: getCell at a position outside the grid returns null; setCell at such
\* a position returns the circuit it was given, whose cells are all as before.
C17_OutOfBoundsIsNoOp ==
    (edit.op # "none" /\ EditOutOfBounds) =>
        /\ edit.op = "getCell" => edit.result = NullCell
        /\ edit.op = "setCell" => edit.circuit = edit.argument
        /\ CircuitValue(gheap, edit.argument) = edit.before
        /\ CircuitValue(gheap, edit.circuit) = edit.before

\* setCell of a gate at a position below the last row of a grid that already
\* holds a gate
C17_Witness ==
    /\ edit.op = "setCell"
    /\ edit.row = edit.before.nQubits
    /\ edit.col = 0
    /\ edit.before.nCols >= 1
    /\ edit.cell # NullCell
    /\ \E pos \in DOMAIN written : written[pos] # NullCell

\* the grid of a circuit has nQubits rows of nCols cells
GridShaped(circ) ==
    /\ Len(circ.grid) = circ.nQubits
    /\ \A r \in 1..Len(circ.grid) : Len(circ.grid[r]) = circ.nCols

\* C18: setCell at a position inside the grid returns a new circuit with the
\* same nQubits and nCols and a grid of nQubits rows of nCols cells that holds
\* the given cell at the position and the cells of the argument everywhere
\* else, while the argument keeps all its cells; and the circuit held after
\* any sequence of calls has that shape and holds, at every position, the
\* cell last set there (null if none was).
C18_SetCellIsPersistentUpdate ==
    /\ (edit.op = "setCell" /\ ~EditOutOfBounds) =>
           /\ edit.circuit # edit.argument
           /\ gheap.circuits[edit.circuit].nQubits = edit.before.nQubits
           /\ gheap.circuits[edit.circuit].nCols = edit.before.nCols
           /\ \A pos \in GridPositions(edit.before.nQubits, edit.before.nCols) :
                  getCell(gheap, edit.circuit, pos[1], pos[2])
                      = IF pos = <<edit.row, edit.col>> THEN edit.cell
                        ELSE edit.before.grid[pos[1] + 1][pos[2] + 1]
           /\ CircuitValue(gheap, edit.argument) = edit.before
    /\ GridShaped(CircuitValue(gheap, edit.circuit))
    /\ DOMAIN written = GridPositions(gheap.circuits[edit.circuit].nQubits,
                                      gheap.circuits[edit.circuit].nCols)
    /\ \A pos \in DOMAIN written :
           getCell(gheap, edit.circuit, pos[1], pos[2]) = written[pos]

\* setCell replacing a gate by another one in a 2x2 grid that holds a gate
\* elsewhere too
C18_Witness ==
    /\ edit.op = "setCell"
    /\ ~EditOutOfBounds
    /\ edit.before.nQubits = 2
    /\ edit.before.nCols = 2
    /\ edit.before.grid[edit.row + 1][edit.col + 1] \notin {NullCell, edit.cell}
    /\ edit.cell # NullCell
    /\ Cardinality({ pos \in DOMAIN written : written[pos] # NullCell }) >= 2

\* column 0 = H on qubit 0, column 1 = CNOT control qubit 0, target qubit 1
BellCircuit ==
    [nQubits |-> 2, nCols |-> 2,
     grid |-> << <<Cell("H"), [kind |-> "CNOT", hasTarget |-> TRUE, targetRow |-> <<1>>]>>,
                 <<NullCell, NullCell>> >>]

\* |00>
KetZeroZero == <<c(One, Zero), c(Zero, Zero), c(Zero, Zero), c(Zero, Zero)>>

\* C21: the Bell circuit run on |00> puts in the snapshot of column 1 the
\* amplitude (1/sqrt2, 0) at the indices 0 and 3 and (0, 0) at the indices 1
\* and 2.
C21_BellState ==
    (circuit = BellCircuit /\ initialValues = KetZeroZero /\ Len(columnStates) = 2) =>
        /\ SnapshotValues(2)[1] = c(InvSqrt2, Zero)
        /\ SnapshotValues(2)[4] = c(InvSqrt2, Zero)
        /\ SnapshotValues(2)[2] = c(Zero, Zero)
        /\ SnapshotValues(2)[3] = c(Zero, Zero)

\* the Bell circuit has returned its two snapshots, the first one being
\* (|00> + |01>)/sqrt2 in index order 0, 1
C21_Witness ==
    /\ circuit = BellCircuit
    /\ initialValues = KetZeroZero
    /\ pc = "returned"
    /\ Len(columnStates) = 2
    /\ SnapshotValues(1) = <<c(InvSqrt2, Zero), c(InvSqrt2, Zero), c(Zero, Zero), c(Zero, Zero)>>

\* the last call was made on a state with amplitudes.length = 2^numberOfQubits
LastOnWellFormed == Len(last.before) = Pow2(last.numberOfQubits)

\* the addresses of the amplitude array the caller's vector holds now
EngineArray == eheap.arrays[eheap.vectors[1].amplitudes]

\* every element of the array is an object created by the last call, no two
\* elements the same object, and the call created no other object
EachIndexWrittenOnce ==
    /\ \A i \in 1..Len(EngineArray) : EngineArray[i] > Len(last.before)
    /\ \A i \in 1..Len(EngineArray) : \A j \in 1..Len(EngineArray) :
           i # j => EngineArray[i] # EngineArray[j]
    /\ Len(eheap.objects) = Len(last.before) + Len(EngineArray)

\* C23: a successful applySingleQubitGate on qubit q leaves at every index i
\* with bit q = 0 and at its partner i + 2^q the matrix applied to the pair of
\* values held before the call, and writes every index exactly once.
C23_GateTransformsEachPairOnce ==
    (last.op \in SingleQubitKinds /\ ~last.threw /\ LastOnWellFormed) =>
        /\ EngineValues = RefGate(last.before, last.qubit, EngineMatrix(last.op))
        /\ Len(EngineValues) = Len(last.before)
        /\ eheap.vectors[1].amplitudes = 1
        /\ EachIndexWrittenOnce

\* H applied to qubit 1 of a 2-qubit state with four non-zero amplitudes
C23_Witness ==
    /\ last.op = "H"
    /\ last.qubit = 1
    /\ ~last.threw
    /\ Len(last.before) = 4
    /\ \A i \in 1..4 : last.before[i] # c(Zero, Zero)
    /\ EngineValues # last.before

\* where applyCNOT must put the amplitude of basis index i
XorTarget(i, control, target) ==
    IF QubitBit(i, control) = 1
    THEN (IF QubitBit(i, target) = 1 THEN i - Pow2(target) ELSE i + Pow2(target))
    ELSE i

\* C24: a successful applyCNOT gives the state a new array in which the old
\* amplitude of every index i is found at i XOR 2^target when bit control of
\* i is 1 and at i otherwise, every index of the new array written exactly
\* once, while the old array still holds the old values.
C24_CNOTPermutesIntoNewArray ==
    (last.op = "CNOT" /\ ~last.threw /\ LastOnWellFormed) =>
        /\ Len(EngineValues) = Len(last.before)
        /\ \A i \in 0..(Len(last.before) - 1) :
               EngineValues[XorTarget(i, last.qubit, last.target) + 1] = last.before[i + 1]
        /\ eheap.vectors[1].amplitudes # 1
        /\ \A i \in 1..Len(EngineArray) : EngineArray[i] # 0
        /\ EachIndexWrittenOnce
        /\ Len(eheap.arrays[1]) = Len(last.before)
        /\ \A i \in 1..Len(last.before) :
               eheap.objects[eheap.arrays[1][i]] = last.before[i]

\* CNOT with control 1 and target 0 on a state whose amplitudes at the
\* indices 2 and 3 differ
C24_Witness ==
    /\ last.op = "CNOT"
    /\ last.qubit = 1
    /\ last.target = 0
    /\ ~last.threw
    /\ Len(last.before) = 4
    /\ last.before[3] # last.before[4]
    /\ EngineValues[3] = last.before[4]

\* C25: applySingleQubitGate and applyCNOT on a state whose amplitudes.length
\* is not 2^numberOfQubits raise an error and leave the length of the array
\* and every amplitude as they were.
C25_GateRejectsMismatch ==
    (last.op \in SingleQubitKinds \cup {"CNOT"} /\ ~LastOnWellFormed) =>
        (last.threw /\ StateAsBefore)

\* C30: a second measureQubit of the same qubit, right after a first one made
\* on a normalized state, returns the bit the first returned whatever its
\* draw is, reports probability 1 for that bit and 0 for the other, and
\* leaves every amplitude as it found it.
C30_MeasureTwiceIsIdempotent ==
    (/\ last.op = "MEASURE"
     /\ ~last.threw
     /\ last.previous # <<>>
     /\ Normalized(last.previous[1].before)) =>
        /\ last.result.resultBit = last.previous[1].result.resultBit
        /\ last.result.probabilityZero = (IF last.result.resultBit = 0 THEN One ELSE Zero)
        /\ last.result.probabilityOne = (IF last.result.resultBit = 1 THEN One ELSE Zero)
        /\ EngineValues = last.before

\* two measurements of qubit 0 of a 2-qubit state, the first of which had
\* both outcomes possible and collapsed the state, the second drawing r = 0
\* and still returning 1
C30_Witness ==
    /\ last.op = "MEASURE"
    /\ ~last.threw
    /\ last.previous # <<>>
    /\ Normalized(last.previous[1].before)
    /\ Len(last.before) = 4
    /\ last.previous[1].result.probabilityZero \notin {Zero, One}
    /\ last.before # last.previous[1].before
    /\ last.r = Zero
    /\ last.result.resultBit = 1


\* a CNOT control among the nodes: a CNOT gate recording a partner
IsControlNode(n) == n.kind = "CNOT" /\ n.hasPartner

\* the control names another row of the canvas, and a CNOT gate stands there
\* in the control's column
ControlNodeIsWellFormed(n) ==
    /\ n.partnerRow # Null
    /\ n.partnerRow[1] # n.row
    /\ n.partnerRow[1] >= 0
    /\ n.partnerRow[1] < numQubits
    /\ \E j \in 1..Len(nodes) :
           /\ nodes[j].kind = "CNOT"
           /\ nodes[j].row = n.partnerRow[1]
           /\ nodes[j].col = n.col

\* the same of the CNOT controls of a built circuit
BuiltControlsAreWellFormed(circ) ==
    \A rw \in 0..(circ.nQubits - 1) : \A cl \in 0..(circ.nCols - 1) :
        LET cell == GridCell(circ, rw, cl)
        IN  (cell.kind = "CNOT" /\ cell.hasTarget /\ Len(cell.targetRow) = 1)
            => /\ cell.targetRow[1] # rw
               /\ cell.targetRow[1] >= 0
               /\ cell.targetRow[1] < circ.nQubits
               /\ GridCell(circ, cell.targetRow[1], cl).kind = "CNOT"

\* C26: after any sequence of placements (click or drop), deletions and
\* qubit-count changes, every CNOT control has a partner row different from
\* its own and below nQubits, its partner CNOT stands in the same column,
\* and so the circuit built from the nodes on Run holds no control whose
\* target is its own row, out of range or without a partner.
C26_ControlsAreWellFormed ==
    pc = "editor" =>
        /\ \A i \in 1..Len(nodes) :
               IsControlNode(nodes[i]) => ControlNodeIsWellFormed(nodes[i])
        /\ BuiltControlsAreWellFormed(buildCircuitFromNodes(nodes, numQubits))

\* the factor of qubit q in the amplitude at a basis index: alpha_q when bit q
\* of the index is 0, beta_q otherwise, a missing input counting as |0>
FactorOf(inputs, q, i) ==
    LET local == IF q + 1 <= Len(inputs) THEN LocalState(inputs[q + 1])
                 ELSE [alpha |-> c(One, Zero), beta |-> c(Zero, Zero)]
    IN  IF (i \div Pow2(q)) % 2 = 0 THEN local.alpha ELSE local.beta

\* the product of the factors of the qubits 0..q
RECURSIVE ProductOfFactors(_, _, _)
ProductOfFactors(inputs, q, i) ==
    IF q < 0 THEN c(One, Zero)
    ELSE complexMultiply(ProductOfFactors(inputs, q - 1, i), FactorOf(inputs, q, i))

\* the qubit is given |0> or |1> (a missing input is |0>)
IsBasisInput(inputs, q) ==
    q + 1 > Len(inputs) \/ inputs[q + 1] \in {QubitPresets.zero, QubitPresets.one}

\* bit_q: 1 when the qubit is given |1>
BasisBit(inputs, q) ==
    IF q + 1 <= Len(inputs) /\ inputs[q + 1] = QubitPresets.one THEN 1 ELSE 0

\* the sum of bit_q * 2^q over the qubits 0..q
RECURSIVE BasisIndex(_, _)
BasisIndex(inputs, q) ==
    IF q < 0 THEN 0 ELSE BasisIndex(inputs, q - 1) + BasisBit(inputs, q) * Pow2(q)

\* C22: the initial state built from the inputs has 2^nQubits amplitudes, the
\* amplitude at basis index i is the product over the qubits of alpha_q when
\* bit q of i is 0 and beta_q otherwise (qubit 0 the least significant bit, a
\* missing input |0>), and when every qubit is |0> or |1> the state is the
\* single basis state of index sum of bit_q * 2^q.
C22_InitialStateIsTensorProduct ==
    builtState # Null =>
        LET state == builtState[1]
        IN  /\ state.numberOfQubits = inputQubits
            /\ Len(state.amplitudes) = Pow2(inputQubits)
            /\ \A i \in 0..(Pow2(inputQubits) - 1) :
                   state.amplitudes[i + 1] = ProductOfFactors(qubitInputs, inputQubits - 1, i)
            /\ (\A q \in 0..(inputQubits - 1) : IsBasisInput(qubitInputs, q))
               => \A i \in 0..(Pow2(inputQubits) - 1) :
                      state.amplitudes[i + 1] =
                          IF i = BasisIndex(qubitInputs, inputQubits - 1)
                          THEN c(One, Zero) ELSE c(Zero, Zero)

\* two qubits, the first given |1> and the second missing: the state built is
\* the basis state of index 1
C22_Witness ==
    /\ builtState # Null
    /\ inputQubits = 2
    /\ qubitInputs = <<QubitPresets.one>>
    /\ builtState[1].amplitudes[2] = c(One, Zero)

\* the amplitude an entry shows
EntryAmplitude(entry) == c(entry.real, entry.imaginary)

\* C27: for every nQubits and every list of inputs, the run handler's initial
\* state and the display column's entries hold the same amplitude for every
\* simulator basis index j (qubit 0 = bit 0), a missing input being |0> in
\* both: the column of qubitInputRender.tsx holds it in its entry j, the
\* column of part_004 in its entry reverseBits(j).
C27_RunAndDisplayAgree ==
    /\ (builtState # Null /\ columnEntries # Null /\ columnEntries[1].shown)
       => /\ Len(columnEntries[1].entries) = Len(builtState[1].amplitudes)
          /\ \A j \in 0..(Pow2(inputQubits) - 1) :
                 EntryAmplitude(columnEntries[1].entries[j + 1])
                     = builtState[1].amplitudes[j + 1]
    /\ (builtState # Null /\ part4Entries # Null /\ part4Entries[1].shown)
       => /\ Len(part4Entries[1].entries) = Len(builtState[1].amplitudes)
          /\ \A j \in 0..(Pow2(inputQubits) - 1) :
                 EntryAmplitude(part4Entries[1].entries[reverseBits(j, inputQubits) + 1])
                     = builtState[1].amplitudes[j + 1]

\* two qubits, the first given |1> and the second missing: both columns are
\* shown and the run handler's state holds 1 at index 1
C27_Witness ==
    /\ builtState # Null
    /\ columnEntries # Null
    /\ part4Entries # Null
    /\ inputQubits = 2
    /\ qubitInputs = <<QubitPresets.one>>
    /\ columnEntries[1].shown
    /\ part4Entries[1].shown
    /\ EntryAmplitude(columnEntries[1].entries[2]) = c(One, Zero)

\* the label shows qubit 0 first: its character q is bit q of the index j
LabelShowsQubitZeroFirst(label, j, nQubits) ==
    /\ Len(label) = nQubits
    /\ \A q \in 0..(nQubits - 1) : label[q + 1] = (j \div Pow2(q)) % 2

\* the entries labelled with the digits of i show the amplitude the vector
\* holds at reverseBits(i, nQubits)
EntriesShowReversedIndex(entries, amplitudes, nQubits) ==
    /\ Len(entries) = Pow2(nQubits)
    /\ \A i \in 0..(Pow2(nQubits) - 1) :
           /\ entries[i + 1].label = BinaryLabel(i, nQubits)
           /\ EntryAmplitude(entries[i + 1]) = amplitudes[reverseBits(i, nQubits) + 1]
           /\ LabelShowsQubitZeroFirst(entries[i + 1].label,
                                       reverseBits(i, nQubits), nQubits)

MaxLabelQubits == 3

\* reverseBits is a bijection on [0, 2^nQubits) and its own inverse
ReverseBitsIsInvolution ==
    \A n \in 1..MaxLabelQubits :
        /\ \A i \in 0..(Pow2(n) - 1) :
               /\ reverseBits(i, n) \in 0..(Pow2(n) - 1)
               /\ reverseBits(reverseBits(i, n), n) = i
        /\ \A i, k \in 0..(Pow2(n) - 1) :
               reverseBits(i, n) = reverseBits(k, n) => i = k
        /\ \A j \in 0..(Pow2(n) - 1) : \E i \in 0..(Pow2(n) - 1) : reverseBits(i, n) = j

\* the part of C28 about the per-column visualizer
VisualizerShowsReversedIndex ==
    (builtState # Null /\ visualizerEntries # Null)
    => EntriesShowReversedIndex(visualizerEntries[1], builtState[1].amplitudes,
                                inputQubits)

\* the part of C28 about the initial-state column
ColumnShowsReversedIndex ==
    (builtState # Null /\ columnEntries # Null /\ columnEntries[1].shown)
    => EntriesShowReversedIndex(columnEntries[1].entries, builtState[1].amplitudes,
                                inputQubits)

\* C28: in every displayed global-state entry, of the per-column visualizer
\* and of the initial-state column, the label prints qubit 0 as its leftmost
\* character: the entry labelled with the binary digits of i shows the
\* amplitude held at simulator index reverseBits(i, nQubits); and reverseBits
\* is a bijection on [0, 2^nQubits) that is its own inverse.
C28_LabelsShowQubitZeroFirst ==
    /\ VisualizerShowsReversedIndex
    /\ ColumnShowsReversedIndex
    /\ ReverseBitsIsInvolution

\* everything the most recent Run computed is what is stored
StoredIsLastRun ==
    /\ (lastRun = Null) <=> (globalStatesPerColumn = Null)
    /\ lastRun # Null =>
           /\ globalStatesPerColumn = <<lastRun[1].statesPerColumn>>
           /\ measureOutcomes = <<lastRun[1].measurementResults>>
           /\ runMaxCols = Len(lastRun[1].statesPerColumn)

\* a revealed column shows the snapshot of that column of the most recent Run
RevealedShowLastRun ==
    \A cl \in RevealedColumns :
        ShownState(cl) = <<lastRun[1].statesPerColumn[cl + 1]>>

\* a playback step computes and alters no snapshot and no measurement result
PlaybackAltersNothing ==
    [][AnimationFrame => UNCHANGED <<globalStatesPerColumn, measureOutcomes, lastRun>>]_vars

\* at a playback step the set of revealed columns only grows
RevealedOnlyGrows ==
    [][AnimationFrame => RevealedColumns \subseteq RevealedColumns']_vars

\* every computed column is revealed
AllRevealed ==
    /\ globalStatesPerColumn # Null
    /\ RevealedColumns = 0..(Len(globalStatesPerColumn[1]) - 1)

\* once Run is no longer pressed, playback eventually stops with every
\* computed column revealed, if any run was made
PlaybackStops ==
    (<>[][~Run]_vars) => <>[](~isRunning /\ (lastRun # Null => AllRevealed))

====
